---------------------------- MODULE Spec2Model ----------------------------
(***************************************************************************)
(* A model of the asn1util BER/DER codec: the Tag and Length primitives    *)
(* (asn1util/tlv.py), the streaming reader StreamDecoder and the function  *)
(* read_next_tlv (asn1util/codec.py), the writer StreamEncoder             *)
(* (asn1util/codecs/encoder.py) and the REAL codec (asn1util/real.py).     *)
(*                                                                         *)
(* Octets are the integers 0..255, octet strings are sequences of them.    *)
(* Stream offsets are 0-based, as BytesIO.tell() reports them: the octet   *)
(* at offset p of buf is buf[p + 1].  An exception is modelled by the name *)
(* of its class in a field err ("none" when nothing was raised).           *)
(***************************************************************************)
EXTENDS Integers, Naturals, Sequences, FiniteSets, TLC

VARIABLES
    data,     \* decoder runs: the input octets and how they were built
    dec,      \* decoder runs: the StreamDecoder object
    rnt,      \* decoder runs: what read_next_tlv(data) returned or raised
    enc,      \* encoder runs: the StreamEncoder object and the operations made
    tl,       \* Tag / Length runs: the input and the result of the last call
    real      \* REAL runs: the input double and the result of the last call

vars == <<data, dec, rnt, enc, tl, real>>

Idle == [phase |-> "idle"]

-----------------------------------------------------------------------------
(* Octet helpers *)

Min(a, b) == IF a < b THEN a ELSE b

Last(s) == s[Len(s)]

Front(s) == SubSeq(s, 1, Len(s) - 1)

\* istream.read(n) at offset pos: at most n octets, fewer at the end of the data
Read(buf, pos, n) == SubSeq(buf, pos + 1, Min(pos + n, Len(buf)))

RECURSIVE from_bytes(_)
\* int.from_bytes(octets, byteorder='big', signed=False)
from_bytes(octets) ==
    IF octets = <<>> THEN 0
    ELSE from_bytes(Front(octets)) * 256 + Last(octets)

RECURSIVE bit_length(_)
\* int.bit_length() of a non-negative int
bit_length(n) == IF n = 0 THEN 0 ELSE 1 + bit_length(n \div 2)

RECURSIVE to_bytes(_, _)
\* int.to_bytes(k, byteorder='big', signed=False)
to_bytes(n, k) ==
    IF k = 0 THEN <<>> ELSE Append(to_bytes(n \div 256, k - 1), n % 256)

\* class InvalidEncoding and its subclass DERIncompatible
IsInvalidEncoding(e) == e \in {"InvalidEncoding", "DERIncompatible"}

-----------------------------------------------------------------------------
(* asn1util/tlv.py: class Tag *)

NoTag == [err |-> "none", octets |-> <<>>, clazz |-> 0, pc |-> 0, number |-> 0]

TagError(octets) == [NoTag EXCEPT !.err = "InvalidEncoding", !.octets = octets]

\* TagOctetRejected with the last octet looked for one index too far, so that
\* every subsequent octet is checked as an inner one
TagOctetRejected_last_off_by_one(octets, ind) ==
    LET octet == octets[ind + 1]
        tag_len == Len(octets)
    IN  \/ ind = 1 /\ octet % 64 = 0
        \/ ind = tag_len /\ octet >= 128
        \/ ind # tag_len /\ octet < 128

\* One pass of the loop of Tag.__init__ over the octets after the first:
\* TRUE when the octet at index ind (counted from 1 after the leading octet)
\* makes the constructor raise.
TagOctetRejected(octets, ind) ==
    LET octet == octets[ind + 1]
        tag_len == Len(octets)
    IN  \/ ind = 1 /\ octet % 64 = 0              \* octet & 0x3f == 0
        \/ ind = tag_len - 1 /\ octet >= 128      \* last octet with b8 = 1
        \/ ind # tag_len - 1 /\ octet < 128       \* inner octet with b8 = 0

\* The number Tag.__init__ leaves in self._number for a long-form tag: it is
\* set to 0 before the loop and the loop never assigns it.
TagLongNumber(octets) == 0

\* Tag.__init__(octets, strict)
Tag_init(octets, strict) ==
    IF Len(octets) = 0 THEN TagError(octets)
    ELSE LET leading == octets[1]
             clazz == (leading \div 64) * 64          \* leading & 0xC0
             pc == ((leading \div 32) % 2) * 32       \* leading & 0x20
         IN  IF leading % 32 < 31
             THEN [err |-> "none", octets |-> octets, clazz |-> clazz,
                   pc |-> pc, number |-> leading % 32]
             ELSE IF Len(octets) = 1 THEN TagError(octets)
             ELSE IF \E ind \in 1..(Len(octets) - 1) : TagOctetRejected(octets, ind)
                  THEN TagError(octets)
             ELSE IF strict /\ TagLongNumber(octets) < 31 THEN TagError(octets)
             ELSE [err |-> "none", octets |-> octets, clazz |-> clazz,
                   pc |-> pc, number |-> TagLongNumber(octets)]

\* Tag.is_primitive
is_primitive(tag) == (tag.octets[1] \div 32) % 2 = 0

RECURSIVE Base128(_)
\* The loop of Tag.build, most significant group first, b8 set on every octet
Base128(n) ==
    IF n = 0 THEN <<>> ELSE Append(Base128(n \div 128), (n % 128) + 128)

\* Tag.build(the_class, the_type, number), number >= 0
Tag_build(the_class, the_type, number) ==
    LET tag_initial == the_class + the_type
    IN  IF number < 31 THEN Tag_init(<<tag_initial + number>>, FALSE)
        ELSE LET groups == Base128(number)
                 res == <<tag_initial + 31>> \o Front(groups)
                            \o <<Last(groups) - 128>>      \* res[0] &= 0x7f
             IN  Tag_init(res, FALSE)

RECURSIVE ContinuationCount(_, _)
\* The while loop of Tag.decode: the octets read after the leading one, up to
\* and including the first with b8 = 0, or up to the end of the data.
ContinuationCount(buf, pos) ==
    IF pos >= Len(buf) THEN 0
    ELSE IF buf[pos + 1] < 128 THEN 1
    ELSE 1 + ContinuationCount(buf, pos + 1)

\* Tag.decode(stream) with the stream at offset pos.  st = "none" is the
\* return value None (end of data); pos is the offset after the call.
Tag_decode(buf, pos) ==
    IF pos >= Len(buf) THEN [st |-> "none", pos |-> pos, tag |-> NoTag]
    ELSE LET leading == buf[pos + 1]
             n == IF leading % 32 # 31 THEN 0 ELSE ContinuationCount(buf, pos + 1)
             t == Tag_init(SubSeq(buf, pos + 1, pos + 1 + n), FALSE)
         IN  [st |-> IF t.err = "none" THEN "ok" ELSE "err",
              pos |-> pos + 1 + n, tag |-> t]

-----------------------------------------------------------------------------
(* asn1util/tlv.py: class Length *)

\* definite = FALSE stands for self._value = None
NoLength == [err |-> "none", octets |-> <<>>, definite |-> FALSE, value |-> 0]

LengthError(kind, octets) == [NoLength EXCEPT !.err = kind, !.octets = octets]

\* Length.__init__(octets, der)
Length_init(octets, der) ==
    IF Len(octets) = 0 THEN LengthError("InvalidEncoding", octets)
    ELSE LET leading == octets[1]
         IN  IF leading = 128
             THEN IF der THEN LengthError("DERIncompatible", octets)
                  ELSE [NoLength EXCEPT !.octets = octets]
             ELSE IF leading < 128
             THEN IF Len(octets) # 1 THEN LengthError("InvalidEncoding", octets)
                  ELSE [err |-> "none", octets |-> octets, definite |-> TRUE,
                        value |-> leading % 128]
             ELSE IF leading = 255 THEN LengthError("InvalidEncoding", octets)
             ELSE IF Len(octets) # (leading % 128) + 1
                  THEN LengthError("InvalidEncoding", octets)
             ELSE [err |-> "none", octets |-> octets, definite |-> TRUE,
                   value |-> from_bytes(SubSeq(octets, 2, Len(octets)))]

\* Length.build(length_value); length_value is [definite, value], definite =
\* FALSE standing for None.  InvalidTLV is not a name of tlv.py's namespace:
\* raising it is a NameError.
Length_build(length_value) ==
    IF ~length_value.definite THEN Length_init(<<128>>, FALSE)
    ELSE IF length_value.value < 0 THEN LengthError("ValueError", <<>>)
    ELSE IF length_value.value < 127 THEN Length_init(<<length_value.value>>, FALSE)
    ELSE LET num_octets == (bit_length(length_value.value) + 7) \div 8
         IN  IF num_octets > 127 THEN LengthError("NameError", <<>>)
             ELSE Length_init(<<num_octets + 128>>
                                \o to_bytes(length_value.value, num_octets), FALSE)

\* Length.decode(stream, der) with the stream at offset pos
Length_decode(buf, pos, der) ==
    IF pos >= Len(buf) THEN [st |-> "none", pos |-> pos, length |-> NoLength]
    ELSE LET initial == buf[pos + 1]
         IN  IF initial = 128 \/ initial < 128
             THEN [st |-> "ok", pos |-> pos + 1,
                   length |-> Length_init(<<initial>>, FALSE)]
             ELSE LET subsequent_len == initial % 128
                      subsequent_octets == Read(buf, pos + 1, subsequent_len)
                      l == Length_init(<<initial>> \o subsequent_octets, der)
                  IN  IF Len(subsequent_octets) < subsequent_len
                      THEN [st |-> "err", pos |-> Len(buf),
                            length |-> LengthError("NameError", <<>>)]
                      ELSE [st |-> IF l.err = "none" THEN "ok" ELSE "err",
                            pos |-> pos + 1 + subsequent_len, length |-> l]

\* `length != 0` with a Length on the left and an int on the right (codec.py,
\* _check_to_end_constructed): class Length defines neither __eq__ nor
\* __ne__, so Python compares identities and the objects always differ.
Length_ne_int(length, n) == TRUE

-----------------------------------------------------------------------------
(* asn1util/codec.py: class Token, class StreamDecoder *)

\* A Token.  The tokens of one decode live in the sequence dec.tokens in the
\* order they were created; parent is the index of the parent token (0 for
\* None), so a token's children list is the tokens naming it as parent, in
\* order, and root_tokens is the tokens with parent 0.  has_value is
\* `value is not None`, has_children is `children is not None`.
Token(tag, length, tof, lof, vof, parent) ==
    [tag |-> tag.octets, prim |-> is_primitive(tag),
     definite |-> length.definite, length |-> length.value,
     tof |-> tof, lof |-> lof, vof |-> vof,
     value |-> <<>>, has_value |-> FALSE,
     parent |-> parent, has_children |-> FALSE]

\* StreamDecoder.__init__: the object before the first proceed_token.
\* done records that proceed_token returned None, err the exception raised.
StreamDecoder_init ==
    [phase |-> "run", pos |-> 0, stack |-> <<>>, current |-> 0,
     tokens |-> <<>>, events |-> <<>>, err |-> "none", done |-> FALSE]

\* _on_token_begin / _on_token_end: the event handed to the listeners, with
\* the token and the depth of the stack at that moment
OnEvent(d, ev) ==
    [d EXCEPT !.events = Append(@, [ev |-> ev, tok |-> d.current,
                                     depth |-> Len(d.stack)])]

Raise(d, kind) == [d EXCEPT !.err = kind]

\* StreamDecoder._proceed_primitive
StreamDecoder_proceed_primitive(buf, d) ==
    LET cur == d.tokens[d.current]
    IN  IF ~cur.definite THEN Raise(d, "InvalidEncoding")
        ELSE LET value_octets == Read(buf, d.pos, cur.length)
                 d1 == [d EXCEPT !.pos = d.pos + Len(value_octets)]
             IN  IF Len(value_octets) < cur.length
                 THEN Raise(d1, "InvalidEncoding")
                 ELSE OnEvent([d1 EXCEPT !.tokens[d.current].value = value_octets,
                                         !.tokens[d.current].has_value = TRUE],
                              "end")

\* StreamDecoder._begin_proceed_constructed
StreamDecoder_begin_proceed_constructed(d) ==
    [d EXCEPT !.tokens[d.current].has_children = TRUE,
              !.stack = Append(@, d.current)]

\* self._current = self._stack.pop(); self._on_token_end()
PopAndEnd(d) ==
    OnEvent([d EXCEPT !.current = Last(d.stack), !.stack = Front(d.stack)], "end")

RECURSIVE StreamDecoder_check_to_end_constructed(_)
\* StreamDecoder._check_to_end_constructed: the while loop, one pass per call
StreamDecoder_check_to_end_constructed(d) ==
    IF d.stack = <<>> THEN d
    ELSE LET parent == d.tokens[Last(d.stack)]
         IN  IF parent.definite
             THEN LET expected_pos == parent.vof + parent.length
                      current_pos == d.pos
                  IN  IF expected_pos = current_pos
                      THEN StreamDecoder_check_to_end_constructed(PopAndEnd(d))
                      ELSE IF current_pos > expected_pos
                      THEN Raise(d, "InvalidEncoding")
                      ELSE d
             ELSE IF d.tokens[d.current].tag = <<0>>
                  THEN IF Length_ne_int(d.tokens[d.current].length, 0)
                       THEN Raise(d, "InvalidEncoding")
                       ELSE StreamDecoder_check_to_end_constructed(PopAndEnd(d))
                  ELSE d

\* StreamDecoder.proceed_token: one call, on the data buf
StreamDecoder_proceed_token(buf, d) ==
    LET tof == d.pos
        t == Tag_decode(buf, tof)
    IN  IF t.st = "err" THEN Raise([d EXCEPT !.pos = t.pos], t.tag.err)
        ELSE IF t.st = "none"
        THEN IF d.stack # <<>> THEN Raise(d, "InvalidEncoding")
             ELSE [d EXCEPT !.done = TRUE]
        ELSE
        LET lof == t.pos
            l == Length_decode(buf, lof, FALSE)
        IN  IF l.st = "err" THEN Raise([d EXCEPT !.pos = l.pos], l.length.err)
            ELSE IF l.st = "none"
            \* the message of the InvalidEncoding reads self._stack[-1]
            THEN Raise([d EXCEPT !.pos = l.pos],
                       IF d.stack = <<>> THEN "IndexError" ELSE "InvalidEncoding")
            ELSE
            LET vof == l.pos
                parent == IF d.stack # <<>> THEN Last(d.stack) ELSE 0
                d1 == OnEvent([d EXCEPT
                                 !.pos = vof,
                                 !.current = Len(d.tokens) + 1,
                                 !.tokens = Append(@, Token(t.tag, l.length, tof,
                                                            lof, vof, parent))],
                              "begin")
            IN  IF is_primitive(t.tag)
                THEN LET d2 == StreamDecoder_proceed_primitive(buf, d1)
                     IN  IF d2.err # "none" THEN d2
                         ELSE StreamDecoder_check_to_end_constructed(d2)
                ELSE StreamDecoder_begin_proceed_constructed(d1)

RECURSIVE StreamDecoder_drain(_, _)
\* StreamDecoder.decode: proceed_token until it returns None or raises
StreamDecoder_drain(buf, d) ==
    IF d.err # "none" \/ d.done THEN d
    ELSE StreamDecoder_drain(buf, StreamDecoder_proceed_token(buf, d))

StreamDecoder_decode(buf) == StreamDecoder_drain(buf, StreamDecoder_init)

\* StreamDecoder.root_tokens, as indices into d.tokens
root_tokens(d) == {i \in 1..Len(d.tokens) : d.tokens[i].parent = 0}

\* Token.children of token i, as indices into d.tokens
children(d, i) == {j \in 1..Len(d.tokens) : d.tokens[j].parent = i}

-----------------------------------------------------------------------------
(* asn1util/codec.py: read_next_tlv *)

RntNone(pos) ==
    [phase |-> "done", st |-> "none", err |-> "none", t |-> <<>>, l |-> <<>>,
     definite |-> FALSE, v |-> <<>>, pos |-> pos]

RntRaise(kind, pos) == [RntNone(pos) EXCEPT !.st = "err", !.err = kind]

RECURSIVE read_next_tlv(_, _)
RECURSIVE ReadUntilEOC(_, _, _)

\* ReadUntilEOC with the end of the data taken for the End-of-Content octets
ReadUntilEOC_eof_ends(buf, pos, buffer) ==
    LET i == read_next_tlv(buf, pos)
    IN  IF i.st = "err" THEN i
        ELSE IF i.st = "none"
        THEN [RntNone(i.pos) EXCEPT !.st = "ok", !.v = buffer]
        ELSE LET extended == buffer \o i.t \o i.l \o i.v
             IN  IF i.t = <<0>>
                 THEN [RntNone(i.pos) EXCEPT !.st = "ok", !.v = extended]
                 ELSE ReadUntilEOC(buf, i.pos, extended)

\* ReadUntilEOC with the End-of-Content octets left out of the value returned
ReadUntilEOC_drops_eoc(buf, pos, buffer) ==
    LET i == read_next_tlv(buf, pos)
    IN  IF i.st = "err" THEN i
        ELSE IF i.st = "none" THEN RntRaise("InvalidEncoding", i.pos)
        ELSE IF i.t = <<0>>
        THEN [RntNone(i.pos) EXCEPT !.st = "ok", !.v = buffer]
        ELSE ReadUntilEOC(buf, i.pos, buffer \o i.t \o i.l \o i.v)

\* The `while True` loop of read_next_tlv for an indefinite-length element:
\* buffer holds the octets of the elements read so far.
ReadUntilEOC(buf, pos, buffer) ==
    LET i == read_next_tlv(buf, pos)
    IN  IF i.st = "err" THEN i
        ELSE IF i.st = "none" THEN RntRaise("InvalidEncoding", i.pos)
        ELSE LET extended == buffer \o i.t \o i.l \o i.v
             IN  IF i.t = <<0>>
                 THEN [RntNone(i.pos) EXCEPT !.st = "ok", !.v = extended]
                 ELSE ReadUntilEOC(buf, i.pos, extended)

\* read_next_tlv(istream) with the stream at offset pos
read_next_tlv(buf, pos) ==
    LET t == Tag_decode(buf, pos)
    IN  IF t.st = "err" THEN RntRaise(t.tag.err, t.pos)
        ELSE IF t.st = "none" THEN RntNone(t.pos)
        ELSE
        LET l == Length_decode(buf, t.pos, FALSE)
        IN  IF l.st = "err" THEN RntRaise(l.length.err, l.pos)
            ELSE IF l.st = "none" THEN RntRaise("InvalidEncoding", l.pos)
            ELSE IF l.length.definite
            THEN LET v == Read(buf, l.pos, l.length.value)
                 IN  IF Len(v) < l.length.value
                     THEN RntRaise("ASN1Exception", l.pos + Len(v))
                     ELSE [phase |-> "done", st |-> "ok", err |-> "none",
                           t |-> t.tag.octets, l |-> l.length.octets,
                           definite |-> TRUE, v |-> v, pos |-> l.pos + Len(v)]
            ELSE LET r == ReadUntilEOC(buf, l.pos, <<>>)
                 IN  IF r.st # "ok" THEN r
                     ELSE [r EXCEPT !.t = t.tag.octets, !.l = l.length.octets]

-----------------------------------------------------------------------------
(* The inputs of the decoder runs: BER elements built from trees *)

MaxDepth == 2      \* nesting depth of the generated elements
MaxValLen == 2     \* longest value of a generated primitive element

\* An element: a primitive OCTET STRING (tag 04) with the value val, its
\* length in the short form or (lf) in the long form 81 nn, or a constructed
\* SEQUENCE (tag 30) of the elements kids with a definite or indefinite length.
Prim(val, lf) ==
    [prim |-> TRUE, tag |-> 4, indef |-> FALSE, lf |-> lf, val |-> val,
     kids |-> <<>>]

Cons(indef, kids) ==
    [prim |-> FALSE, tag |-> 48, indef |-> indef, lf |-> FALSE, val |-> <<>>,
     kids |-> kids]

\* the octets 31 32 33 ... ("123...")
Digits(n) == [i \in 1..n |-> 48 + i]

P1 == Prim(Digits(1), FALSE)

Prims == {Prim(Digits(n), FALSE) : n \in 0..MaxValLen} \cup {Prim(Digits(1), TRUE)}

KidSeqs(S) ==
    {<<>>} \cup {<<x>> : x \in S} \cup {<<P1, x>> : x \in S}
           \cup {<<x, P1>> : x \in S}

RECURSIVE Elems(_)
Elems(d) ==
    IF d = 0 THEN Prims
    ELSE LET S == Elems(d - 1)
         IN  S \cup {Cons(f, k) : f \in BOOLEAN, k \in KidSeqs(S)}

\* 30 80 04 03 31 32 33 04 04 34 35 36 37 00 00
Scenario15 ==
    Cons(TRUE, <<Prim(<<49, 50, 51>>, FALSE), Prim(<<52, 53, 54, 55>>, FALSE)>>)

\* 30 80 04 03 31 32 33 00 00
Scenario9 == Cons(TRUE, <<Prim(<<49, 50, 51>>, FALSE)>>)

\* 30 80 04 03 31 32 00 (00 00): the element of test_indefinite_length
Scenario7 == Cons(TRUE, <<Prim(<<49, 50, 0>>, FALSE)>>)

\* X.690 8.1.3: the length octets of a definite length n < 128
RefLen(n, lf) == IF lf THEN <<129, n>> ELSE <<n>>

RECURSIVE RefEnc(_)
RECURSIVE RefEncSeq(_)

\* X.690 8.1: the encoding of an element
RefEnc(t) ==
    IF t.prim THEN <<t.tag>> \o RefLen(Len(t.val), t.lf) \o t.val
    ELSE LET body == RefEncSeq(t.kids)
         IN  IF t.indef THEN <<t.tag, 128>> \o body \o <<0, 0>>
             ELSE <<t.tag>> \o RefLen(Len(body), FALSE) \o body

RefEncSeq(ts) ==
    IF ts = <<>> THEN <<>> ELSE RefEnc(ts[1]) \o RefEncSeq(Tail(ts))

RECURSIVE ValueFields(_, _)
RECURSIVE ValueFieldsSeq(_, _)

\* The value fields <<first offset, offset after the last octet>> of the
\* definite-length elements of t, t encoded at offset off
ValueFields(t, off) ==
    IF t.prim
    THEN LET vof == off + 1 + Len(RefLen(Len(t.val), t.lf))
         IN  {<<vof, vof + Len(t.val)>>}
    ELSE IF t.indef THEN ValueFieldsSeq(t.kids, off + 2)
    ELSE LET vof == off + 2
         IN  {<<vof, vof + Len(RefEncSeq(t.kids))>>}
                 \cup ValueFieldsSeq(t.kids, vof)

ValueFieldsSeq(ts, off) ==
    IF ts = <<>> THEN {}
    ELSE ValueFields(ts[1], off)
             \cup ValueFieldsSeq(Tail(ts), off + Len(RefEnc(ts[1])))

\* The lengths of the prefixes of the encoding that end strictly inside a
\* declared value field
CutPoints(ts) ==
    {c \in 1..Len(RefEncSeq(ts)) :
        \E f \in ValueFieldsSeq(ts, 0) : f[1] < c /\ c < f[2]}

TopLevels ==
    {<<x>> : x \in Elems(MaxDepth)} \cup {<<x, P1>> : x \in Elems(MaxDepth)}
        \cup {<<Scenario15>>, <<Scenario9>>, <<Scenario7>>}

\* Octet strings in which the primitive tag 04 is followed by the length
\* octet 80, at the top level or inside a SEQUENCE
PrimitiveIndefinite ==
    {<<4, 128>>, <<4, 128, 0, 0>>, <<4, 128, 4, 1, 49, 0, 0>>,
     <<4, 1, 49, 4, 128, 0, 0>>,
     <<48, 4, 4, 128, 0, 0>>, <<48, 128, 4, 128, 0, 0, 0, 0>>,
     <<48, 128, 4, 1, 49, 4, 128, 0, 0, 0, 0>>}

\* Octet strings that end after a complete tag, before any length octet
TagWithoutLength ==
    {<<4>>, <<48>>, <<95, 33>>, <<4, 1, 49, 4>>, <<48, 0, 4>>,
     <<48, 128, 4>>, <<48, 3, 4>>, <<48, 128, 48, 128, 4>>,
     <<48, 128, 4, 1, 49, 48>>}

\* Octet strings in which an element runs past the end of the value field of
\* the definite-length SEQUENCE holding it
ChildPastParent ==
    {<<48, 1, 4, 1, 49>>, <<48, 2, 4, 1, 49, 4, 0>>, <<48, 1, 48, 2, 4, 0>>,
     <<48, 1, 48, 0>>, <<48, 1, 48, 0, 4, 0>>, <<48, 0, 4, 0>>,
     <<48, 3, 48, 1, 4, 1, 49>>, <<48, 128, 48, 1, 4, 1, 49, 0, 0>>,
     <<48, 1, 48, 128, 4, 0, 0, 0>>}

\* kind "wf": a well-formed encoding; "cut": its prefix of cut octets, cut
\* strictly inside a declared value field; "noeoc": one indefinite-length
\* element without its End-of-Content octets; "primindef": a primitive tag
\* followed by the octet 80; "nolen": a tag at the end of the data; "past":
\* an element running past the end of its parent.
Inputs ==
    {[phase |-> "run", octets |-> o, tree |-> <<>>, kind |-> "past",
      cut |-> 0] : o \in ChildPastParent}
    \cup
    {[phase |-> "run", octets |-> o, tree |-> <<>>, kind |-> "primindef",
      cut |-> 0] : o \in PrimitiveIndefinite}
    \cup {[phase |-> "run", octets |-> o, tree |-> <<>>, kind |-> "nolen",
           cut |-> 0] : o \in TagWithoutLength}
    \cup
    {[phase |-> "run", octets |-> RefEncSeq(ts), tree |-> ts, kind |-> "wf",
      cut |-> 0] : ts \in TopLevels}
    \cup UNION {{[phase |-> "run", octets |-> SubSeq(RefEncSeq(ts), 1, c),
                  tree |-> ts, kind |-> "cut", cut |-> c] : c \in CutPoints(ts)}
                : ts \in TopLevels}
    \cup {[phase |-> "run", octets |-> Front(Front(RefEncSeq(ts))), tree |-> ts,
           kind |-> "noeoc", cut |-> 0]
          : ts \in {x \in TopLevels : Len(x) = 1 /\ ~x[1].prim /\ x[1].indef}}

-----------------------------------------------------------------------------
(* The decoder runs: one StreamDecoder over the input, stepped by the caller,
   and one call of read_next_tlv on the same input *)

Init ==
    /\ data \in Inputs
    /\ dec = StreamDecoder_init
    /\ rnt = Idle
    /\ enc = Idle
    /\ tl = Idle
    /\ real = Idle

\* the caller calls proceed_token again unless it returned None or raised
proceed_token ==
    /\ dec.err = "none"
    /\ ~dec.done
    /\ dec' = StreamDecoder_proceed_token(data.octets, dec)
    /\ UNCHANGED <<data, rnt, enc, tl, real>>

CallReadNextTlv ==
    /\ rnt = Idle
    /\ rnt' = read_next_tlv(data.octets, 0)
    /\ UNCHANGED <<data, dec, enc, tl, real>>

Next == proceed_token \/ CallReadNextTlv

Spec == Init /\ [][Next]_vars

-----------------------------------------------------------------------------
(* Claims about the decoder runs *)

\* the drain of the StreamDecoder has ended: proceed_token returned None or raised
Drained == dec.done \/ dec.err # "none"

RECURSIVE Replay(_, _, _)
\* Replays the events from index i on with the tokens in open begun and not
\* yet ended: ok when every end event ends the token begun last.
Replay(events, i, open) ==
    IF i > Len(events) THEN [ok |-> TRUE, open |-> open]
    ELSE IF events[i].ev = "begin"
    THEN Replay(events, i + 1, Append(open, events[i].tok))
    ELSE IF open # <<>> /\ Last(open) = events[i].tok
    THEN Replay(events, i + 1, Front(open))
    ELSE [ok |-> FALSE, open |-> open]

RECURSIVE Boundaries(_, _)
\* the offsets at which a top-level element of ts, encoded at off, ends
Boundaries(ts, off) ==
    IF ts = <<>> THEN {}
    ELSE {off + Len(RefEnc(ts[1]))}
             \cup Boundaries(Tail(ts), off + Len(RefEnc(ts[1])))

\* C1: on a well-formed input the drain raises nothing, every end event
\* closes the element opened last, at the end of the drain every element
\* begun has ended, and between two calls of proceed_token the stack is empty
\* exactly when the stream stands at the start of the data or at the end of a
\* top-level element.
C1_StructuralClosure ==
    data.kind = "wf" =>
        /\ dec.err = "none"
        /\ Replay(dec.events, 1, <<>>).ok
        /\ dec.done => Replay(dec.events, 1, <<>>).open = <<>>
        /\ dec.stack = <<>> <=> dec.pos \in {0} \cup Boundaries(data.tree, 0)

\* C6: on a well-formed encoding cut strictly inside a declared value field
\* the StreamDecoder never ends without an exception, the exception it and
\* read_next_tlv raise is InvalidEncoding, and no token carries a value
\* shorter than its declared length.
C6_TruncationRaisesInvalidEncoding ==
    data.kind = "cut" =>
        /\ ~dec.done
        /\ dec.err # "none" => IsInvalidEncoding(dec.err)
        /\ \A i \in 1..Len(dec.tokens) :
               dec.tokens[i].has_value =>
                   Len(dec.tokens[i].value) = dec.tokens[i].length
        /\ rnt.phase = "done" => rnt.st = "err" /\ IsInvalidEncoding(rnt.err)

\* C7: the drain of 30 80 04 03 31 32 33 04 04 34 35 36 37 00 00 ends without
\* an exception with one root token, the indefinite-length SEQUENCE, whose
\* children are two primitive tokens with the values 31 32 33 and
\* 34 35 36 37, and with the stream at offset 15, the end of the data.
C7_IndefiniteScenarioDecodes ==
    (data.kind = "wf" /\ data.tree = <<Scenario15>> /\ Drained) =>
        /\ dec.err = "none"
        /\ dec.pos = 15 /\ dec.pos = Len(data.octets)
        /\ root_tokens(dec) = {1}
        /\ dec.tokens[1].tag = <<48>> /\ ~dec.tokens[1].definite
        /\ children(dec, 1) = {2, 3}
        /\ \A i \in {2, 3} : dec.tokens[i].prim /\ dec.tokens[i].tag = <<4>>
        /\ dec.tokens[2].value = <<49, 50, 51>>
        /\ dec.tokens[3].value = <<52, 53, 54, 55>>

IsScenario9 == data.kind = "wf" /\ data.octets = <<48, 128, 4, 3, 49, 50, 51, 0, 0>>

PrimitiveIndefiniteTokens ==
    {i \in 1..Len(dec.tokens) : dec.tokens[i].prim /\ ~dec.tokens[i].definite}

\* C11: on data in which a primitive tag is followed by the octet 80 the drain
\* of the StreamDecoder ends with InvalidEncoding and no event ends a
\* primitive token of indefinite length; when the primitive element is the
\* first of the data, read_next_tlv raises InvalidEncoding and returns nothing.
C11_PrimitiveIndefiniteRejected ==
    data.kind = "primindef" =>
        /\ Drained => dec.err = "InvalidEncoding"
        /\ \A k \in 1..Len(dec.events) :
               dec.events[k].ev = "end" =>
                   dec.events[k].tok \notin PrimitiveIndefiniteTokens
        /\ (rnt.phase = "done" /\ SubSeq(data.octets, 1, 2) = <<4, 128>>) =>
               rnt.st = "err" /\ IsInvalidEncoding(rnt.err)

\* C13: on data that ends after a tag, before any length octet, the drain of
\* the StreamDecoder ends with InvalidEncoding, the stack empty or not, and
\* read_next_tlv raises InvalidEncoding.
C13_MissingLengthRaisesInvalidEncoding ==
    data.kind = "nolen" =>
        /\ ~dec.done
        /\ dec.err # "none" => dec.err = "InvalidEncoding"
        /\ rnt.phase = "done" => rnt.st = "err" /\ rnt.err = "InvalidEncoding"

\* token i has received its end event
Ended(i) == \E k \in 1..Len(dec.events) :
                dec.events[k].ev = "end" /\ dec.events[k].tok = i

\* C14: after proceed_token has raised, every token of root_tokens and of the
\* children lists below it is complete: a primitive token has its value and
\* a constructed token has received its end event.
C14_NoPartialTokenAfterError ==
    dec.err # "none" =>
        \A i \in 1..Len(dec.tokens) :
            /\ dec.tokens[i].prim => dec.tokens[i].has_value
            /\ ~dec.tokens[i].prim => Ended(i)

\* the call of proceed_token that is this step has created a token
CreatesToken == proceed_token /\ Len(dec'.tokens) = Len(dec.tokens) + 1

\* the token tok is an End-of-Content element: tag octet 00, length 0
IsEOC(tok) == tok.tag = <<0>> /\ tok.definite /\ tok.length = 0

\* this step has popped the frame i and fired its end event
ClosedByStep(i) ==
    /\ \A k \in 1..Len(dec'.stack) : dec'.stack[k] # i
    /\ \E k \in (Len(dec.events) + 1)..Len(dec'.events) :
           dec'.events[k].ev = "end" /\ dec'.events[k].tok = i

\* C21: a call of proceed_token made while the top frame of the stack has an
\* indefinite length pops that frame and fires its end event if and only if
\* the token it has read is an End-of-Content element, and reading an
\* End-of-Content element then raises nothing.
C21_EOCClosesIndefiniteFrame ==
    [][(CreatesToken /\ dec.stack # <<>>
            /\ ~dec.tokens[Last(dec.stack)].definite) =>
           /\ ClosedByStep(Last(dec.stack))
                  <=> IsEOC(dec'.tokens[Len(dec'.tokens)])
           /\ IsEOC(dec'.tokens[Len(dec'.tokens)]) => dec'.err = "none"]_vars

\* the indefinite-length frames of the stack that this step has closed
IndefiniteClosedByStep ==
    {i \in {dec.stack[k] : k \in 1..Len(dec.stack)} :
        ~dec.tokens[i].definite /\ ClosedByStep(i)}

\* C29: a call of proceed_token that reads an End-of-Content element while
\* the top frame has an indefinite length closes exactly one
\* indefinite-length frame, the top one: an enclosing indefinite-length
\* frame stays on the stack.
C29_OneEOCClosesOneFrame ==
    [][(CreatesToken /\ dec.stack # <<>>
            /\ ~dec.tokens[Last(dec.stack)].definite
            /\ IsEOC(dec'.tokens[Len(dec'.tokens)])) =>
           IndefiniteClosedByStep = {Last(dec.stack)}]_vars

\* expected_pos of _check_to_end_constructed for the definite-length token i
ExpectedEnd(i) == dec.tokens[i].vof + dec.tokens[i].length

\* the definite-length frames of the stack
DefiniteFrames ==
    {dec.stack[k] : k \in {j \in 1..Len(dec.stack) : dec.tokens[dec.stack[j]].definite}}

RECURSIVE TokenEnd(_)
\* the offset after the last octet of the token i: the end of its value field,
\* or for an indefinite length the end of the last token read inside it
TokenEnd(i) ==
    IF dec.tokens[i].definite THEN ExpectedEnd(i)
    ELSE IF children(dec, i) = {} THEN dec.tokens[i].vof
    ELSE TokenEnd(CHOOSE j \in children(dec, i) : \A m \in children(dec, i) : m <= j)

\* the children of the token i lie end to end from the first octet of its
\* value field to the last
SpanExactly(i) ==
    LET kids == children(dec, i)
    IN  IF kids = {} THEN dec.tokens[i].length = 0
        ELSE /\ \E j \in kids : dec.tokens[j].tof = dec.tokens[i].vof
             /\ \E j \in kids : TokenEnd(j) = ExpectedEnd(i)
             /\ \A j \in kids :
                    \/ dec.tokens[j].tof = dec.tokens[i].vof
                    \/ \E m \in kids : m < j /\ TokenEnd(m) = dec.tokens[j].tof

\* C22: between two calls of proceed_token no definite-length frame is on the
\* stack with the stream at the end of its value field, unless the call has
\* raised: the frame is closed when the position reaches expected_end.  A drain that ends with the position after expected_end of
\* a frame still on the stack has raised InvalidEncoding.  The children of
\* every definite-length constructed token that has received its end event
\* span exactly its value field.
C22_DefiniteFrameClosedAtExpectedEnd ==
    /\ dec.err = "none" => \A i \in DefiniteFrames : dec.pos # ExpectedEnd(i)
    /\ (Drained /\ \E i \in DefiniteFrames : dec.pos > ExpectedEnd(i)) =>
           dec.err = "InvalidEncoding"
    /\ \A i \in 1..Len(dec.tokens) :
           (~dec.tokens[i].prim /\ dec.tokens[i].definite /\ Ended(i)) =>
               SpanExactly(i)

\* the constructed tokens with the definite length 0
EmptyConstructed ==
    {i \in 1..Len(dec.tokens) :
        ~dec.tokens[i].prim /\ dec.tokens[i].definite /\ dec.tokens[i].length = 0}

\* C28: a constructed token with the definite length 0 has no children, its
\* end event comes before the begin event of every token read after it, and
\* the drain of 30 00 ends without an exception with the stack empty.
C28_EmptyConstructedCloses ==
    /\ \A i \in EmptyConstructed :
           /\ children(dec, i) = {}
           /\ \A k \in 1..Len(dec.events) :
                  (dec.events[k].ev = "begin" /\ dec.events[k].tok > i) =>
                      \E m \in 1..(k - 1) :
                          dec.events[m].ev = "end" /\ dec.events[m].tok = i
    /\ (data.octets = <<48, 0>> /\ Drained) =>
           dec.err = "none" /\ dec.stack = <<>>

-----------------------------------------------------------------------------
(* asn1util/codecs/basic.py: iter_descendant_tlvs *)

RECURSIVE iter_descendant_tlvs(_, _)
\* The elements iter_descendant_tlvs yields reading buf from offset pos, in
\* order, each with its tag octets, length octets and value, and the
\* exception that ended the iteration, if one did.
iter_descendant_tlvs(buf, pos) ==
    LET r == read_next_tlv(buf, pos)
    IN  IF r.st = "err" THEN [err |-> r.err, items |-> <<>>]
        ELSE IF r.st = "none" THEN [err |-> "none", items |-> <<>>]
        ELSE LET item == [t |-> r.t, l |-> r.l, v |-> r.v]
                 inner == IF (r.t[1] \div 32) % 2 = 0      \* t.is_primitive
                          THEN [err |-> "none", items |-> <<>>]
                          ELSE iter_descendant_tlvs(r.v, 0)
             IN  IF inner.err # "none"
                 THEN [err |-> inner.err, items |-> <<item>> \o inner.items]
                 ELSE LET rest == iter_descendant_tlvs(buf, r.pos)
                      IN  [err |-> rest.err,
                           items |-> <<item>> \o inner.items \o rest.items]

-----------------------------------------------------------------------------
(* asn1util/codecs/encoder.py: class StreamEncoder *)

\* Length.eval(n), which encoder.py calls and tlv.py does not define: the
\* length octets of the specification's Length encode, short form for
\* n < 128, else the long form with the fewest octets.
Length_eval(n) ==
    IF n < 128 THEN <<n>>
    ELSE LET num_octets == (bit_length(n) + 7) \div 8
         IN  <<num_octets + 128>> \o to_bytes(n, num_octets)

\* StreamEncoder.__init__.  A frame of the stack is (tag, indefinite_length,
\* output): sink names the object output is, 0 for self._stream, else the
\* index of the stack frame owning the BytesIO, whose contents are that
\* frame's buf.  A definite frame owns a new BytesIO; an indefinite frame's
\* output is the very object its enclosing output was.  tree and open record
\* the elements the calls so far describe: the top-level elements completed
\* and, per open frame, the children completed.  scopes holds, per block of
\* `with encoder.construct(...)` entered and not yet left, the depth of the
\* stack before it was entered; exits records the blocks left.  err is the
\* exception that ended the run, as the call raised it.
StreamEncoder_init ==
    [phase |-> "run", stack |-> <<>>, stream |-> <<>>, err |-> "none",
     out |-> <<>>, ops |-> 0, tree |-> <<>>, open |-> <<>>,
     scopes |-> <<>>, exits |-> <<>>]

\* `self._stream if len(self._stack) == 0 else self._stack[-1][2]`
CurrentOutput(e) == IF e.stack = <<>> THEN 0 ELSE Last(e.stack).sink

\* output.write(octets)
Write(e, sink, octets) ==
    IF sink = 0 THEN [e EXCEPT !.stream = @ \o octets]
    ELSE [e EXCEPT !.stack[sink].buf = @ \o octets]

\* the element t recorded as the next child of the innermost open element
Record(e, t) ==
    IF e.open = <<>> THEN [e EXCEPT !.tree = Append(@, t)]
    ELSE [e EXCEPT !.open[Len(e.open)] = Append(@, t)]

\* StreamEncoder.append_primitive(t, value)
StreamEncoder_append_primitive(e, t, value) ==
    IF ~is_primitive([octets |-> t]) THEN [e EXCEPT !.err = "ValueError"]
    ELSE Record(Write(e, CurrentOutput(e),
                      t \o Length_eval(Len(value)) \o value),
                Prim(value, FALSE))

\* StreamEncoder.begin_constructed(t, indefinite_length)
StreamEncoder_begin_constructed(e, t, indefinite_length) ==
    IF is_primitive([octets |-> t]) THEN [e EXCEPT !.err = "ValueError"]
    ELSE LET output == CurrentOutput(e)
             w == Write(e, output,
                        IF indefinite_length THEN t \o <<128>> ELSE t)
             frame == [tag |-> t, ind_len |-> indefinite_length,
                       sink |-> IF indefinite_length THEN output
                                ELSE Len(e.stack) + 1,
                       buf |-> <<>>]
         IN  [w EXCEPT !.stack = Append(@, frame), !.open = Append(@, <<>>)]

\* StreamEncoder.end_constructed()
StreamEncoder_end_constructed(e) ==
    IF e.stack = <<>> THEN [e EXCEPT !.err = "IndexError"]
    ELSE LET top == Last(e.stack)
             popped == [e EXCEPT !.stack = Front(@), !.open = Front(@)]
             done == Record(popped, Cons(top.ind_len, Last(e.open)))
         IN  IF top.ind_len THEN Write(done, top.sink, <<0, 0>>)
             ELSE Write(done, CurrentOutput(done),
                        Length_eval(Len(top.buf)) \o top.buf)

\* StreamEncoder.construct(t, indefinite_length) up to its yield:
\* begin_constructed, which may raise before the try is entered
StreamEncoder_construct_enter(e, t, indefinite_length) ==
    LET begun == StreamEncoder_begin_constructed(e, t, indefinite_length)
    IN  IF begun.err # "none" THEN begun
        ELSE [begun EXCEPT !.scopes = Append(@, Len(e.stack))]

\* The finally clause of the innermost block of construct: end_constructed(),
\* run when the block completes (raised FALSE) or while the exception e.err
\* leaves it (raised TRUE).  The exit recorded holds the depth of the stack
\* before the block and after it, and the exception the clause itself raised.
StreamEncoder_construct_finally(e, raised) ==
    LET ended == StreamEncoder_end_constructed([e EXCEPT !.err = "none"])
        exit == [before |-> Last(e.scopes), after |-> Len(ended.stack),
                 raised |-> raised, err |-> ended.err]
    IN  [ended EXCEPT !.err = IF e.err # "none" THEN e.err ELSE ended.err,
                      !.scopes = Front(@),
                      !.exits = Append(@, exit)]

RECURSIVE Propagate(_)
\* An exception raised inside blocks of construct leaves them one after the
\* other, innermost first, each running its finally clause
Propagate(e) ==
    IF e.err = "none" \/ e.scopes = <<>> THEN e
    ELSE Propagate(StreamEncoder_construct_finally(e, TRUE))

\* StreamEncoder.data with the stack left unread
StreamEncoder_data_ignores_stack(e) ==
    [e EXCEPT !.phase = "data", !.out = e.stream]

\* StreamEncoder.data
StreamEncoder_data(e) ==
    IF e.stack = <<>> THEN [e EXCEPT !.phase = "data", !.out = e.stream]
    ELSE [e EXCEPT !.err = "ASN1Exception"]

-----------------------------------------------------------------------------
(* The encoder runs: calls on one StreamEncoder *)

MaxOps == 6     \* calls made on one StreamEncoder
MaxScopes == 2  \* blocks of construct entered on one StreamEncoder

\* the tags and values handed to the encoder: OCTET STRING and SEQUENCE
EncTags == {<<4>>, <<48>>}
EncValues == {<<>>, <<49>>, <<49, 50>>}

InitEnc ==
    /\ enc = StreamEncoder_init
    /\ data = Idle /\ dec = Idle /\ rnt = Idle /\ tl = Idle /\ real = Idle

EncCallable == enc.phase = "run" /\ enc.err = "none" /\ enc.ops < MaxOps

append_primitive ==
    /\ EncCallable
    /\ \E t \in EncTags, value \in EncValues :
           enc' = Propagate([StreamEncoder_append_primitive(enc, t, value)
                                 EXCEPT !.ops = @ + 1])
    /\ UNCHANGED <<data, dec, rnt, tl, real>>

begin_constructed ==
    /\ EncCallable
    /\ \E t \in EncTags, indefinite_length \in BOOLEAN :
           enc' = Propagate([StreamEncoder_begin_constructed(enc, t,
                                                             indefinite_length)
                                 EXCEPT !.ops = @ + 1])
    /\ UNCHANGED <<data, dec, rnt, tl, real>>

end_constructed ==
    /\ EncCallable
    /\ enc' = Propagate([StreamEncoder_end_constructed(enc)
                             EXCEPT !.ops = @ + 1])
    /\ UNCHANGED <<data, dec, rnt, tl, real>>

\* `with encoder.construct(t, indefinite_length):` entered
construct_enter ==
    /\ EncCallable
    /\ Len(enc.scopes) + Len(enc.exits) < MaxScopes
    /\ \E t \in EncTags, indefinite_length \in BOOLEAN :
           enc' = Propagate([StreamEncoder_construct_enter(enc, t,
                                                           indefinite_length)
                                 EXCEPT !.ops = @ + 1])
    /\ UNCHANGED <<data, dec, rnt, tl, real>>

\* the innermost block of construct completes: its finally clause calls
\* end_constructed
construct_exit ==
    /\ EncCallable /\ enc.scopes # <<>>
    /\ enc' = Propagate([StreamEncoder_construct_finally(enc, FALSE)
                             EXCEPT !.ops = @ + 1])
    /\ UNCHANGED <<data, dec, rnt, tl, real>>

\* reading the property StreamEncoder.data
read_data ==
    /\ enc.phase = "run" /\ enc.err = "none"
    /\ enc' = Propagate(StreamEncoder_data(enc))
    /\ UNCHANGED <<data, dec, rnt, tl, real>>

NextEnc ==
    \/ append_primitive \/ begin_constructed \/ end_constructed
    \/ construct_enter \/ construct_exit \/ read_data

SpecEnc == InitEnc /\ [][NextEnc]_vars

RECURSIVE Expected(_)
RECURSIVE ExpectedSeq(_)
\* The elements of the tree t in depth-first order, each with its tag octets
\* and its value octets
Expected(t) ==
    IF t.prim THEN <<[t |-> <<t.tag>>, v |-> t.val]>>
    ELSE <<[t |-> <<t.tag>>,
            v |-> RefEncSeq(t.kids) \o (IF t.indef THEN <<0, 0>> ELSE <<>>)]>>
             \o ExpectedSeq(t.kids)

ExpectedSeq(ts) ==
    IF ts = <<>> THEN <<>> ELSE Expected(ts[1]) \o ExpectedSeq(Tail(ts))

\* the elements iter_descendant_tlvs yielded, the End-of-Content markers left out
Yielded(items) ==
    LET kept == SelectSeq(items, LAMBDA i : i.t # <<0>>)
    IN  [k \in 1..Len(kept) |-> [t |-> kept[k].t, v |-> kept[k].v]]

RECURSIVE TokenTree(_, _)
\* The element the token i of the decode d stands for, with the elements of
\* its children in order, the End-of-Content markers left out
TokenTree(d, i) ==
    IF d.tokens[i].prim THEN Prim(d.tokens[i].value, FALSE)
    ELSE LET kids == SelectSeq([j \in 1..Len(d.tokens) |-> j],
                         LAMBDA j : /\ d.tokens[j].parent = i
                                    /\ d.tokens[j].tag # <<0>>)
         IN  Cons(~d.tokens[i].definite,
                  [k \in 1..Len(kids) |-> TokenTree(d, kids[k])])

TokenForest(d) ==
    LET roots == SelectSeq([j \in 1..Len(d.tokens) |-> j],
                           LAMBDA j : d.tokens[j].parent = 0)
    IN  [k \in 1..Len(roots) |-> TokenTree(d, roots[k])]

\* C2: once a balanced sequence of append_primitive, begin_constructed and
\* end_constructed calls has been made and data read, iter_descendant_tlvs
\* over the octets yields, without an exception, the elements the calls
\* described, in depth-first order, each with its tag and its value octets,
\* and StreamDecoder.decode of the octets ends without an exception with the
\* tokens of these elements, nested as the calls were.
C2_EncodeDecodeRoundTrip ==
    enc.phase = "data" =>
        /\ LET r == iter_descendant_tlvs(enc.out, 0)
           IN  r.err = "none" /\ Yielded(r.items) = ExpectedSeq(enc.tree)
        /\ LET d == StreamDecoder_decode(enc.out)
           IN  d.err = "none" /\ TokenForest(d) = enc.tree

\* C18: reading data while an element that begin_constructed opened has not
\* been closed by end_constructed raises ASN1Exception and returns nothing;
\* reading it with every element closed returns the octets of the root
\* buffer, self._stream.
C18_DataFailsWhileOpen ==
    [][read_data =>
           IF enc.open # <<>>
           THEN enc'.err = "ASN1Exception" /\ enc'.phase = "run"
                    /\ enc'.out = <<>>
           ELSE enc'.err = "none" /\ enc'.phase = "data"
                    /\ enc'.out = enc.stream]_vars

\* data was read with two elements open, one inside the other, and octets
\* already in the root buffer
C18_Witness ==
    /\ enc.err = "ASN1Exception" /\ enc.phase = "run"
    /\ Len(enc.open) = 2 /\ enc.scopes = <<>> /\ enc.exits = <<>>
    /\ enc.stream # <<>>

\* C19: end_constructed called with an empty stack raises InvalidEncoding
\* and leaves the output as it was.
C19_EndOnEmptyStackRaisesInvalidEncoding ==
    [][(end_constructed /\ enc.stack = <<>>) =>
           enc'.err = "InvalidEncoding" /\ enc'.stream = enc.stream]_vars

\* C20: every block of construct that was left, by completing or by an
\* exception raised inside it, left the stack at the depth it had before
\* the block was entered.
C20_ConstructRestoresDepth ==
    \A k \in 1..Len(enc.exits) : enc.exits[k].after = enc.exits[k].before

-----------------------------------------------------------------------------
(* asn1util/codec.py: class StreamEncoder *)

\* A frame of the stack is (tag, buffer): none stands for buffer = None, the
\* frame of an indefinite-length element, and buf holds the contents of the
\* bytearray of a definite-length one.
Codec_Frame(t, indefinite_length) ==
    [tag |-> t, none |-> indefinite_length, buf |-> <<>>]

\* `if buffer:` is false for None and for an empty bytearray
Codec_Truth(frame) == ~frame.none /\ frame.buf # <<>>

\* StreamEncoder.__init__; tree and open record the elements the calls so
\* far describe, as for the StreamEncoder of codecs/encoder.py
Codec_StreamEncoder_init ==
    [phase |-> "run", stack |-> <<>>, stream |-> <<>>, err |-> "none",
     out |-> <<>>, ops |-> 0, tree |-> <<>>, open |-> <<>>]

\* StreamEncoder.append_primitive(t, value)
Codec_StreamEncoder_append_primitive(e, t, value) ==
    LET tlv == t \o Length_eval(Len(value)) \o value
    IN  IF ~is_primitive([octets |-> t]) THEN [e EXCEPT !.err = "ValueError"]
        ELSE IF e.stack = <<>>
        THEN Record([e EXCEPT !.stream = @ \o tlv], Prim(value, FALSE))
        ELSE IF Codec_Truth(Last(e.stack))
        THEN Record([e EXCEPT !.stack[Len(e.stack)].buf = @ \o tlv],
                    Prim(value, FALSE))
        ELSE Record([e EXCEPT !.stream = @ \o tlv], Prim(value, FALSE))

\* StreamEncoder.begin_constructed(t, indefinite_length)
Codec_StreamEncoder_begin_constructed(e, t, indefinite_length) ==
    IF is_primitive([octets |-> t]) THEN [e EXCEPT !.err = "ValueError"]
    ELSE [e EXCEPT !.stream = @ \o (IF indefinite_length THEN t \o <<128>>
                                    ELSE t),
                   !.stack = Append(@, Codec_Frame(t, indefinite_length)),
                   !.open = Append(@, <<>>)]

\* StreamEncoder.end_constructed()
Codec_StreamEncoder_end_constructed(e) ==
    IF e.stack = <<>> THEN [e EXCEPT !.err = "InvalidEncoding"]
    ELSE LET top == Last(e.stack)
             popped == [e EXCEPT !.stack = Front(@), !.open = Front(@)]
             done == Record(popped, Cons(top.none, Last(e.open)))
         IN  IF Codec_Truth(top)
             THEN [done EXCEPT !.stream = @ \o Length_eval(Len(top.buf))
                                            \o top.buf]
             ELSE [done EXCEPT !.stream = @ \o <<0, 0>>]

\* StreamEncoder.data
Codec_StreamEncoder_data(e) ==
    IF e.stack = <<>> THEN [e EXCEPT !.phase = "data", !.out = e.stream]
    ELSE [e EXCEPT !.err = "ASN1Exception"]

-----------------------------------------------------------------------------
(* The runs of the StreamEncoder of codec.py: calls on one object *)

InitCodecEnc ==
    /\ enc = Codec_StreamEncoder_init
    /\ data = Idle /\ dec = Idle /\ rnt = Idle /\ tl = Idle /\ real = Idle

codec_append_primitive ==
    /\ EncCallable
    /\ \E t \in EncTags, value \in EncValues :
           enc' = [Codec_StreamEncoder_append_primitive(enc, t, value)
                       EXCEPT !.ops = @ + 1]
    /\ UNCHANGED <<data, dec, rnt, tl, real>>

codec_begin_constructed ==
    /\ EncCallable
    /\ \E t \in EncTags, indefinite_length \in BOOLEAN :
           enc' = [Codec_StreamEncoder_begin_constructed(enc, t,
                                                         indefinite_length)
                       EXCEPT !.ops = @ + 1]
    /\ UNCHANGED <<data, dec, rnt, tl, real>>

codec_end_constructed ==
    /\ EncCallable
    /\ enc' = [Codec_StreamEncoder_end_constructed(enc) EXCEPT !.ops = @ + 1]
    /\ UNCHANGED <<data, dec, rnt, tl, real>>

codec_read_data ==
    /\ enc.phase = "run" /\ enc.err = "none"
    /\ enc' = Codec_StreamEncoder_data(enc)
    /\ UNCHANGED <<data, dec, rnt, tl, real>>

NextCodecEnc ==
    \/ codec_append_primitive \/ codec_begin_constructed
    \/ codec_end_constructed \/ codec_read_data

SpecCodecEnc == InitCodecEnc /\ [][NextCodecEnc]_vars

\* the step is a call made while the innermost open element has a definite
\* length
Codec_TopDefinite == enc.stack # <<>> /\ ~Last(enc.stack).none

\* The sink of the element enclosing the innermost open one: 0 for the root,
\* self._stream, else the index of the nearest enclosing definite-length frame
Codec_EnclosingSink ==
    LET outer == {k \in 1..(Len(enc.stack) - 1) : ~enc.stack[k].none}
    IN  IF outer = {} THEN 0
        ELSE CHOOSE k \in outer : \A m \in outer : m <= k

\* C24: a call of append_primitive made while the innermost open element has
\* a definite length appends the child to that element's buffer and writes
\* nothing to the root or to another buffer; end_constructed on such an
\* element writes the length octets of the number of octets buffered, then
\* the buffer, to the sink of the enclosing element; and the data read once
\* every element is closed holds each element as tag, length, contents.
C24_DefiniteElementBuffered ==
    [][/\ (codec_append_primitive /\ Codec_TopDefinite /\ enc'.err = "none") =>
              /\ enc'.stream = enc.stream
              /\ \E t \in EncTags, value \in EncValues :
                     enc'.stack =
                         [enc.stack EXCEPT ![Len(enc.stack)].buf =
                              @ \o t \o Length_eval(Len(value)) \o value]
       /\ (codec_end_constructed /\ Codec_TopDefinite) =>
              LET emitted == Length_eval(Len(Last(enc.stack).buf))
                                 \o Last(enc.stack).buf
                  sink == Codec_EnclosingSink
              IN  /\ Len(enc'.stack) = Len(enc.stack) - 1
                  /\ IF sink = 0
                     THEN enc'.stream = enc.stream \o emitted
                     ELSE enc'.stack[sink].buf = enc.stack[sink].buf \o emitted
       /\ enc'.phase = "data" => enc'.out = RefEncSeq(enc'.tree)]_vars

-----------------------------------------------------------------------------
(* Python ints wider than the model's integers: the mantissa n of a REAL and
   the fraction of a double are held as the set of the positions of their
   one-bits, position 0 the least significant *)

\* the one-bits of an octet
BitsOf(octet) == {i \in 0..7 : (octet \div 2^i) % 2 = 1}

\* (n >> 8*j) & 0xff
OctetAt(n, j) ==
    LET b(i) == IF 8 * j + i \in n THEN 2^i ELSE 0
    IN  b(0) + b(1) + b(2) + b(3) + b(4) + b(5) + b(6) + b(7)

\* n.bit_length()
big_bit_length(n) ==
    IF n = {} THEN 0 ELSE (CHOOSE i \in n : \A j \in n : j <= i) + 1

\* n >> k
Shr(n, k) == {i - k : i \in {j \in n : j >= k}}

\* n << k
Shl(n, k) == {i + k : i \in n}

\* n & ((1 << w) - 1)
LowBits(n, w) == {i \in n : i < w}

\* a ^ b
Xor(a, b) == (a \ b) \cup (b \ a)

\* n + 1
Inc(n) ==
    LET z == CHOOSE i \in 0..big_bit_length(n) :
                 i \notin n /\ \A j \in 0..(i - 1) : j \in n
    IN  {i \in n : i > z} \cup {z}

\* n.to_bytes(k, byteorder='big', signed=False)
big_to_bytes(n, k) == [j \in 1..k |-> OctetAt(n, k - j)]

\* int.from_bytes(octets, byteorder='big', signed=False)
big_from_bytes(octets) ==
    UNION {{8 * (Len(octets) - j) + i : i \in BitsOf(octets[j])}
           : j \in 1..Len(octets)}

-----------------------------------------------------------------------------
(* asn1util/util.py *)

\* signed_int_to_bytes(value): the fewest octets of the two's complement
signed_int_to_bytes(value) ==
    IF value = 0 THEN <<0>>
    ELSE IF value > 0
    THEN to_bytes(value, bit_length(value) \div 8 + 1)
    ELSE LET abs_bit_len == bit_length(-value)
             min_byte_len ==
                 IF abs_bit_len % 8 = 0 /\ 2^(abs_bit_len - 1) + value = 0
                 THEN abs_bit_len \div 8
                 ELSE abs_bit_len \div 8 + 1
         IN  to_bytes(256^min_byte_len + value, min_byte_len)

\* unsigned_int_to_bytes(value), value a set of bit positions
unsigned_int_to_bytes(value) ==
    big_to_bytes(value, (big_bit_length(value) + 7) \div 8)

\* int.from_bytes(octets, byteorder='big', signed=True)
from_bytes_signed(octets) ==
    IF octets = <<>> THEN 0
    ELSE IF octets[1] >= 128 THEN from_bytes(octets) - 256^Len(octets)
    ELSE from_bytes(octets)

-----------------------------------------------------------------------------
(* asn1util/real.py: doubles.  A float is held as the eight octets
   struct.pack('>d', value) gives. *)

\* struct.pack('>d', value) of the double with the given sign bit, exponent
\* field and fraction field
PackDouble(sign, exp, fraction) ==
    <<(sign * 128) + (exp \div 16), ((exp % 16) * 16) + OctetAt(fraction, 6)>>
        \o big_to_bytes(LowBits(fraction, 48), 6)

SignBit(encoded) == encoded[1] \div 128

\* ((encoded[0] & 0x7f) << 4) | ((encoded[1] >> 4) & 0x0f)
ExpField(encoded) == ((encoded[1] % 128) * 16) + (encoded[2] \div 16)

\* int.from_bytes(encoded[2:], ...) + ((encoded[1] & 0x0f) << 48)
FractionField(encoded) ==
    big_from_bytes(SubSeq(encoded, 3, 8)) \cup Shl(BitsOf(encoded[2] % 16), 48)

\* class SpecialRealValue
PLUS_INFINITY == 64
MINUS_INFINITY == 65
NOT_A_NUMBER == 66
MINUS_ZERO == 67

SpecialRealValues == {PLUS_INFINITY, MINUS_INFINITY, NOT_A_NUMBER, MINUS_ZERO}

\* SpecialRealValue.from_float(value): the special value, or 0 where the
\* method raises InvalidSpecialRealValue
SpecialRealValue_from_float(value) ==
    IF ExpField(value) = 2047 /\ FractionField(value) = {}
    THEN (IF SignBit(value) = 0 THEN PLUS_INFINITY ELSE MINUS_INFINITY)
    ELSE IF ExpField(value) = 2047 THEN NOT_A_NUMBER
    ELSE IF ExpField(value) = 0 /\ FractionField(value) = {} /\ SignBit(value) = 1
    THEN MINUS_ZERO
    ELSE 0

RECURSIVE StripZeros(_)
\* `while n & 0x01 == 0: n >>= 1; e += 1` on a non-zero n
StripZeros(sne) ==
    IF 0 \in sne.n THEN sne
    ELSE StripZeros([sne EXCEPT !.n = Shr(@, 1), !.e = @ + 1])

\* Real_decompose_ieee754_double_to_base2_sne with the exponent of the normal
\* doubles given to the subnormal ones as well
Real_decompose_subnormal_as_normal(encoded) ==
    LET sign == SignBit(encoded)
        exp == ExpField(encoded)
        fraction == FractionField(encoded)
    IN  IF exp = 0
        THEN IF fraction = {} THEN [s |-> 0, n |-> {}, e |-> 0]
             ELSE [s |-> IF sign = 1 THEN -1 ELSE 0, n |-> fraction, e |-> -1075]
        ELSE [s |-> IF sign = 1 THEN -1 ELSE 0, n |-> fraction \cup {52},
              e |-> exp - 1075]

\* Real.decompose_ieee754_double_to_base2_sne(encoded), for a finite double
\* other than -0.0
Real_decompose_ieee754_double_to_base2_sne(encoded) ==
    LET sign == SignBit(encoded)
        exp == ExpField(encoded)
        fraction == FractionField(encoded)
    IN  IF exp = 0
        THEN IF fraction = {} THEN [s |-> 0, n |-> {}, e |-> 0]
             ELSE [s |-> IF sign = 1 THEN -1 ELSE 0, n |-> fraction, e |-> -1074]
        ELSE [s |-> IF sign = 1 THEN -1 ELSE 0, n |-> fraction \cup {52},
              e |-> exp - 1075]

\* Real.decompose_float_to_base2_sne(value), double = True
Real_decompose_float_to_base2_sne(value) ==
    IF ExpField(value) = 0 /\ FractionField(value) = {}      \* value == 0
    THEN [s |-> 0, n |-> {}, e |-> 0]
    ELSE StripZeros(Real_decompose_ieee754_double_to_base2_sne(value))

\* Real._encode_sne_base2(s, n, e, base), base 2, 8 or 16: for base 8 and 16
\* the exponent is e // 3 or e // 4 and the remainder goes to the bits b4,b3
Real_encode_sne_base2(s, n, e, base) ==
    LET lb == IF base = 8 THEN 3 ELSE IF base = 16 THEN 4 ELSE 1
        f == e % lb
        first_octet == 128 + (IF s # 0 THEN 64 ELSE 0)
                           + (IF base = 8 THEN 16 ELSE IF base = 16 THEN 32 ELSE 0)
                           + (f * 4)
        exp_octets == signed_int_to_bytes(e \div lb)
        exp_len == Len(exp_octets)
        head == IF exp_len = 1 THEN <<first_octet>>
                ELSE IF exp_len = 2 THEN <<first_octet + 1>>
                ELSE IF exp_len = 3 THEN <<first_octet + 2>>
                ELSE <<first_octet + 3>> \o to_bytes(exp_len, 1)
    IN  head \o exp_octets \o unsigned_int_to_bytes(n)

\* Real.encode_float(value, base), value a float
Real_encode_float(value, base) ==
    IF SpecialRealValue_from_float(value) # 0
    THEN <<SpecialRealValue_from_float(value)>>
    ELSE LET sne == Real_decompose_float_to_base2_sne(value)
         IN  Real_encode_sne_base2(sne.s, sne.n, sne.e, base)

\* What a decode returns or raises: kind "float" with the octets packed of the
\* double, "special" with the SpecialRealValue, "decimal" for a Decimal,
\* "raise" with the exception err.
RealFloat(packed) ==
    [kind |-> "float", packed |-> packed, special |-> 0, err |-> "none"]

RealSpecial(sv) ==
    [kind |-> "special", packed |-> <<>>, special |-> sv, err |-> "none"]

RealDecimal ==
    [kind |-> "decimal", packed |-> <<>>, special |-> 0, err |-> "none"]

RealRaise(err) ==
    [kind |-> "raise", packed |-> <<>>, special |-> 0, err |-> err]

\* Decimal(2) ** e * Decimal(n) * (-1 if s else 1) under the default context
\* (Emax = 999999): the power overflows from 10^1000000 on, e >= 3321929.
DecimalPower(e) == IF e >= 3321929 THEN RealRaise("Overflow") ELSE RealDecimal

\* n shifted right by sh >= 1 bits and rounded to nearest, ties to even
RoundShift(n, sh) ==
    LET q == Shr(n, sh)
        half == (sh - 1) \in n
        sticky == \E i \in n : i < sh - 1
    IN  IF half /\ (sticky \/ 0 \in q) THEN Inc(q) ELSE q

\* A float value: cls "zero", "inf", "nan" or "fin", the last with the value
\* m * 2^x
FloatValue(cls, m, x) == [cls |-> cls, m |-> m, x |-> x]

\* m * 2^x rounded to a double
RoundToDouble(m, x) ==
    IF m = {} THEN FloatValue("zero", {}, 0)
    ELSE IF x + big_bit_length(m) - 1 > 1023 THEN FloatValue("inf", {}, 0)
    ELSE IF x >= -1074 THEN FloatValue("fin", m, x)
    ELSE LET r == RoundShift(m, -1074 - x)
         IN  IF r = {} THEN FloatValue("zero", {}, 0)
             ELSE FloatValue("fin", r, -1074)

\* float(n)
FloatOfInt(n) ==
    IF big_bit_length(n) <= 53 THEN RoundToDouble(n, 0)
    ELSE RoundToDouble(RoundShift(n, big_bit_length(n) - 53),
                       big_bit_length(n) - 53)

\* struct.unpack('>d', packed)[0]
UnpackDouble(packed) ==
    IF ExpField(packed) = 2047
    THEN (IF FractionField(packed) = {} THEN FloatValue("inf", {}, 0)
          ELSE FloatValue("nan", {}, 0))
    ELSE IF ExpField(packed) = 0
    THEN RoundToDouble(FractionField(packed), -1074)
    ELSE FloatValue("fin", FractionField(packed) \cup {52},
                    ExpField(packed) - 1075)

\* a == b for two floats of the same sign, or two zeros
FloatEq(a, b) ==
    /\ a.cls = b.cls /\ a.cls # "nan"
    /\ a.cls = "fin" =>
           LET lo == IF a.x < b.x THEN a.x ELSE b.x
           IN  Shl(a.m, a.x - lo) = Shl(b.m, b.x - lo)

\* The block under `if __debug__` of Real._decode_base2s:
\* res = float(n) * (b ** e) * (2 ** f) * s; assert res == raw_float.
\* lb is log2 of b.  The outcome is "none" when the assertion holds, else the
\* exception raised.
DebugCheck(s, n, lb, e, f, packed) ==
    LET k == lb * e
        fl == FloatOfInt(n)
        \* float(n) * (b ** e): b ** e is an int for e >= 0, a float for e < 0
        t1 == IF fl.cls = "zero" \/ k < -1074 THEN FloatValue("zero", {}, 0)
              ELSE RoundToDouble(fl.m, fl.x + k)
        t2 == IF t1.cls = "fin" THEN RoundToDouble(t1.m, t1.x + f) ELSE t1
        raw == UnpackDouble(packed)
        same_sign == (s < 0) = (SignBit(packed) = 1)
    IN  IF big_bit_length(n) > 1024 \/ (e >= 0 /\ k >= 1024)
        THEN "OverflowError"
        ELSE IF FloatEq(t2, raw) /\ (same_sign \/ raw.cls = "zero")
        THEN "none"
        ELSE "AssertionError"

\* Real._decode_base2s(octets)
Real_decode_base2s(octets) ==
    LET fo == octets[1]
        s == IF (fo \div 64) % 2 = 0 THEN 1 ELSE -1
        lb == <<1, 3, 4, 0>>[((fo \div 16) % 4) + 1]     \* base 2, 8, 16, None
        f == (fo \div 4) % 4
        le == fo % 4
        lle == IF Len(octets) >= 2 THEN octets[2] ELSE 0
        eo == IF le < 3 THEN SubSeq(octets, 2, Min(le + 2, Len(octets)))
              ELSE SubSeq(octets, 3, Min(lle + 2, Len(octets)))
        no == IF le < 3 THEN SubSeq(octets, le + 3, Len(octets))
              ELSE SubSeq(octets, lle + 3, Len(octets))
        e == from_bytes_signed(eo)
        n == big_from_bytes(no)
        bl == big_bit_length(n)
        wide == bl > 53
        fn == IF wide THEN Xor(Shr(n, bl - 53), 0..51)
              ELSE LowBits(Shl(n, 53 - bl), 52)
        fe == lb * e + f + (IF wide THEN bl - 53 ELSE -(53 - bl)) + 52 + 1023
        sub == Shr(fn \cup {52}, -fe)
        b1 == IF s < 0 THEN 128 ELSE 0
        packed ==
            IF fe <= 0
            THEN <<b1, (OctetAt(Shr(sub, 1), 6) % 16)>>
                     \o SubSeq(big_to_bytes(Shr(sub, 1), 7), 2, 7)
            ELSE <<b1 + (fe \div 16), ((fe % 16) * 16) + (OctetAt(fn, 6) % 16)>>
                     \o SubSeq(big_to_bytes(fn, 7), 2, 7)
    IN  IF lb = 0 THEN RealRaise("InvalidReal")
        ELSE IF le < 3 /\ ~(Len(octets) > le + 1) THEN RealRaise("AssertionError")
        ELSE IF le = 3 /\ Len(octets) < 2 THEN RealRaise("IndexError")
        ELSE IF le = 3 /\ ~(Len(octets) > lle + 3) THEN RealRaise("AssertionError")
        ELSE IF e = 0 /\ n = {} THEN RealFloat(PackDouble(0, 0, {}))
        ELSE IF fe <= 0 /\ sub = {} THEN RealRaise("TypeError")    \* raise -0.0
        ELSE IF fe > 2047 THEN DecimalPower(e)
        ELSE LET debug == DebugCheck(s, n, lb, e, f, packed)
             IN  IF debug # "none" THEN RealRaise(debug)
                 ELSE RealFloat(packed)

\* SpecialRealValue.eval(byte): the special value, or 0 where the method
\* raises InvalidSpecialRealValue
SpecialRealValue_eval(byte) == IF byte \in SpecialRealValues THEN byte ELSE 0

\* Real.decode(octets)
Real_decode(octets) ==
    IF Len(octets) = 0 THEN RealRaise("AssertionError")
    ELSE LET fo == octets[1]
         IN  IF fo >= 128 THEN Real_decode_base2s(octets)
             ELSE IF fo < 64                            \* Real._decode_base10
                  THEN (IF fo % 64 \in 1..3 THEN RealDecimal
                        ELSE RealRaise("InvalidReal"))
             ELSE IF SpecialRealValue_eval(fo) = 0
                  THEN RealRaise("InvalidSpecialRealValue")
             ELSE IF Len(octets) # 1 THEN RealRaise("InvalidReal")
             ELSE RealSpecial(SpecialRealValue_eval(fo))

\* ieee754_double_to_base2_sne(float_octets): special is the SpecialRealValue
\* returned, 0 when the tuple (s, n, e) is
ieee754_double_to_base2_sne(float_octets) ==
    LET sign == SignBit(float_octets)
        exp == ExpField(float_octets)
        frac == FractionField(float_octets)
        s == IF sign = 1 THEN -1 ELSE 0
    IN  IF exp = 0
        THEN IF frac = {}
             THEN [special |-> IF sign = 0 THEN 0 ELSE MINUS_ZERO,
                   s |-> 0, n |-> {}, e |-> 0]
             ELSE [special |-> 0] @@ StripZeros([s |-> s, n |-> frac, e |-> -1074])
        ELSE IF exp = 2047
        THEN [special |-> IF frac # {} THEN NOT_A_NUMBER
                          ELSE IF sign = 1 THEN MINUS_INFINITY
                          ELSE PLUS_INFINITY,
              s |-> 0, n |-> {}, e |-> 0]
        ELSE [special |-> 0]
                 @@ StripZeros([s |-> s, n |-> frac \cup {52}, e |-> exp - 1075])

\* to_binary_encoding(s, n, e, base), base 2, 8 or 16
to_binary_encoding(s, n, e, base) ==
    LET lb == IF base = 8 THEN 3 ELSE IF base = 16 THEN 4 ELSE 1
        f == e % lb
        leading == 128 + (IF s # 0 THEN 64 ELSE 0)
                       + (IF base = 8 THEN 16 ELSE IF base = 16 THEN 32 ELSE 0)
                       + (f * 4)
        exp_octets == signed_int_to_bytes(e \div lb)
        exp_len == Len(exp_octets)
        head == IF exp_len < 3 THEN <<leading + (exp_len - 1)>>
                ELSE <<leading + 3, exp_len>>
    IN  head \o exp_octets \o unsigned_int_to_bytes(n)

\* ASN1Real.encode_value(value), value a float, self._base = base
ASN1Real_encode_value(value, base) ==
    LET sne == ieee754_double_to_base2_sne(value)
    IN  IF sne.special # 0 THEN <<sne.special>>
        ELSE to_binary_encoding(sne.s, sne.n, sne.e, base)

\* decode_to_float(s, n, e, f, base): lb is log2 of base.  The name b, which
\* the block under `if __debug__` reads, is bound nowhere: a NameError.
decode_to_float(s, n, e, f, lb) ==
    LET bl == big_bit_length(n)
        wide == bl > 53
        fn == IF wide THEN Xor(Shr(n, bl - 53), 0..51)
              ELSE LowBits(Shl(n, 53 - bl), 52)
        fe == lb * e + f + (IF wide THEN bl - 53 ELSE -(53 - bl)) + 52 + 1023
        sub == Shr(fn \cup {52}, -fe)
    IN  IF lb = 1 /\ f > 0 THEN RealRaise("AssertionError")
        ELSE IF fe <= 0 /\ sub = {} THEN RealRaise("TypeError")    \* raise -0.0
        ELSE IF fe > 2047 THEN DecimalPower(e)
        ELSE RealRaise("NameError")

\* ASN1Real.decode_value(octets, der) of an ASN1Real with base = 2, der = False
ASN1Real_decode_value(octets) ==
    IF Len(octets) = 0 THEN RealRaise("IndexError")
    ELSE
    LET leading == octets[1]
        b6b5 == (leading \div 16) % 4
        s == IF (leading \div 64) % 2 = 0 THEN 1 ELSE -1
        f == (leading \div 4) % 4
        b2b1 == leading % 4
        el == from_bytes(SubSeq(octets, 2, Min(2, Len(octets))))
        elen == IF b2b1 < 3 THEN b2b1 + 1 ELSE el
        first == IF b2b1 < 3 THEN 2 ELSE 3
        e == from_bytes(SubSeq(octets, first, Min(first + elen - 1, Len(octets))))
        n == big_from_bytes(SubSeq(octets, first + elen, Len(octets)))
    IN  IF leading < 64
        THEN (IF leading % 64 < 4 THEN RealDecimal
              ELSE RealRaise("InvalidEncoding"))
        ELSE IF leading < 128
        THEN (IF leading % 64 < 4
              THEN (IF leading % 16 \in SpecialRealValues     \* SpecialRealValue(leading & 0x0f)
                    THEN RealSpecial(leading % 16)
                    ELSE RealRaise("ValueError"))
              ELSE RealRaise("InvalidEncoding"))
        ELSE IF b6b5 # 0 THEN RealRaise("InvalidEncoding")
        ELSE decode_to_float(s, n, e, f, 1)

-----------------------------------------------------------------------------
(* asn1util/real.py: ints and Decimals.  An int argument is an integer of the
   model; a finite Decimal is held as its sign ds (0 or 1, as as_tuple()
   gives it), its integral part ip, a set of bit positions, and its
   fractional part in hundredths, fnum / 100.  A decomposition is the tuple
   (s, n, e), or hang when the call never returns, or the exception err. *)

\* the one-bits of a non-negative int of the model
BigOf(v) == {i \in 0..30 : (v \div 2^i) % 2 = 1}

Sne(s, n, e) == [hang |-> FALSE, err |-> "none", s |-> s, n |-> n, e |-> e]

\* `while n & 0x01 == 0: n >>= 1; e += 1` with n = 0: the loop never ends
SneHang == [Sne(0, {}, 0) EXCEPT !.hang = TRUE]

SneRaise(err) == [Sne(0, {}, 0) EXCEPT !.err = err]

\* Real.decompose_int_to_base2_sne(value)
Real_decompose_int_to_base2_sne(value) ==
    IF value = 0 THEN SneHang
    ELSE StripZeros(Sne(IF value < 0 THEN -1 ELSE 0,
                        BigOf(IF value < 0 THEN -value ELSE value), 0))

\* int_to_base2_sne(value)
int_to_base2_sne(value) ==
    IF value = 0 THEN SneHang
    ELSE StripZeros(Sne(IF value < 0 THEN -1 ELSE 0,
                        BigOf(IF value < 0 THEN -value ELSE value), 0))

RECURSIVE Real_fraction_fp(_, _)
\* fp after k passes of the for loop of Real.decompose_decimal_to_base2_sne,
\* in hundredths: fp *= 2; if not fp < 1: fp -= 1
\* (k passes are the first k \div 2 passes, which leave half, and then the
\* others; fp is never negative)
Real_fraction_fp(fp, k) ==
    IF k = 0 THEN fp
    ELSE IF k = 1 THEN (2 * fp) % 100
    ELSE LET half == Real_fraction_fp(fp, k \div 2)
         IN  IF half >= 0 THEN Real_fraction_fp(half, k - k \div 2) ELSE half

\* n after the for loop of Real.decompose_decimal_to_base2_sne:
\* fp *= 2; if fp < 1: n <<= 1; else: n = (n << 1) + 1; fp -= 1
\* the pass k appends a one-bit, which the later passes shift, unless fp < 1
Real_fraction_bits(n, fp, passes) ==
    Shl(n, passes)
        \cup {passes - k : k \in {j \in 1..passes :
                                    2 * Real_fraction_fp(fp, j - 1) >= 100}}

\* Real.decompose_decimal_to_base2_sne(value, max_bytes)
Real_decompose_decimal_to_base2_sne(value, max_bytes) ==
    LET remainder == max_bytes * 8 - big_bit_length(value.ip)
    IN  IF remainder <= 0
        THEN Sne(value.ds, Shr(value.ip, -remainder), -remainder)
        ELSE LET n == Real_fraction_bits(value.ip, value.fnum, remainder)
             IN  IF n = {} THEN SneHang
                 ELSE StripZeros(Sne(value.ds, n, -remainder))

\* `if fp > 1: fp -= 1` on the doubled fp, in hundredths
fraction_carry(fp) == IF fp > 100 THEN fp - 100 ELSE fp

RECURSIVE fraction_fp(_, _)
\* fp after k passes of the for loop of decimal_to_base2_sne
\* (k passes are the first k \div 2 passes, which leave half, and then the
\* others; fp is never negative)
fraction_fp(fp, k) ==
    IF k = 0 THEN fp
    ELSE IF k = 1 THEN fraction_carry(2 * fp)
    ELSE LET half == fraction_fp(fp, k \div 2)
         IN  IF half >= 0 THEN fraction_fp(half, k - k \div 2) ELSE half

\* n after the for loop of decimal_to_base2_sne:
\* fp *= 2; n <<= 1; if fp > 1: n += 1; fp -= 1
fraction_bits(n, fp, passes) ==
    Shl(n, passes)
        \cup {passes - k : k \in {j \in 1..passes :
                                    2 * fraction_fp(fp, j - 1) > 100}}

\* decimal_to_base2_sne(value, byte_length)
decimal_to_base2_sne(value, byte_length) ==
    LET frac_bits_len == byte_length * 8 - big_bit_length(value.ip)
    IN  IF big_bit_length(value.ip) > byte_length * 8 THEN SneRaise("ValueError")
        ELSE LET n == fraction_bits(value.ip, value.fnum, frac_bits_len)
             IN  IF n = {} THEN SneHang
                 ELSE StripZeros(Sne(value.ds, n, -frac_bits_len))

\* What an encoding call did: st "ok" with the octets returned, "hang" when
\* it never returns, "err" with the exception raised
Encoded(octets) == [st |-> "ok", octets |-> octets, err |-> "none"]

EncodeOf(sne, octets) ==
    IF sne.hang THEN [st |-> "hang", octets |-> <<>>, err |-> "none"]
    ELSE IF sne.err # "none" THEN [st |-> "err", octets |-> <<>>, err |-> sne.err]
    ELSE Encoded(octets)

\* Real.encode_float(value, base), value an int: no int is special
Real_encode_float_int(value, base) ==
    LET sne == Real_decompose_int_to_base2_sne(value)
    IN  EncodeOf(sne, Real_encode_sne_base2(sne.s, sne.n, sne.e, base))

\* ASN1Real.encode_value(value), value an int: self._base is not handed on
ASN1Real_encode_value_int(value) ==
    LET sne == int_to_base2_sne(value)
    IN  EncodeOf(sne, to_binary_encoding(sne.s, sne.n, sne.e, 2))

\* ASN1Real.encode_value(value), value a Decimal, self._base = base
ASN1Real_encode_value_decimal(value, base) ==
    LET sne == decimal_to_base2_sne(value, 8)
    IN  EncodeOf(sne, to_binary_encoding(sne.s, sne.n, sne.e, base))

-----------------------------------------------------------------------------
(* The REAL runs: a double encoded and the octets decoded again, through
   class Real or through class ASN1Real *)

MaxFracBits == 3      \* one-bits in the fraction field of a generated double

\* the positions the one-bits of the generated fraction fields are taken from
FracPositions == {0, 1, 2, 26, 47, 48, 51}

\* the exponent fields of the generated doubles: zero and subnormal (0), the
\* ends of the normal range, infinity and NaN (2047), and the exponents
\* around which the octets of the REAL's exponent change in number
ExpFields ==
    {0, 1, 2, 2045, 2046, 2047}
        \cup (893..896) \cup (946..949) \cup (1021..1026) \cup (1073..1077)
        \cup (1150..1152) \cup (1201..1204)

Doubles ==
    {PackDouble(sign, exp, fraction) :
        sign \in {0, 1}, exp \in ExpFields,
        fraction \in {S \in SUBSET FracPositions : Cardinality(S) <= MaxFracBits}}

InitReal ==
    /\ real \in {[phase |-> "input", api |-> a, value |-> v, octets |-> <<>>,
                  out |-> RealRaise("none")]
                 : a \in {"Real", "ASN1Real"}, v \in Doubles}
    /\ data = Idle /\ dec = Idle /\ rnt = Idle /\ enc = Idle /\ tl = Idle

\* Real.encode(value) of a float: Real.encode_float(value)
RealEncode ==
    /\ real.phase = "input" /\ real.api = "Real"
    /\ real' = [real EXCEPT !.phase = "encoded",
                            !.octets = Real_encode_float(real.value, 2)]
    /\ UNCHANGED <<data, dec, rnt, enc, tl>>

\* Real.decode(octets)
RealDecode ==
    /\ real.phase = "encoded" /\ real.api = "Real"
    /\ real' = [real EXCEPT !.phase = "decoded",
                            !.out = Real_decode(real.octets)]
    /\ UNCHANGED <<data, dec, rnt, enc, tl>>

\* ASN1Real.encode_value(value)
ASN1RealEncodeValue ==
    /\ real.phase = "input" /\ real.api = "ASN1Real"
    /\ real' = [real EXCEPT !.phase = "encoded",
                            !.octets = ASN1Real_encode_value(real.value, 2)]
    /\ UNCHANGED <<data, dec, rnt, enc, tl>>

\* ASN1Real.decode_value(octets, der)
ASN1RealDecodeValue ==
    /\ real.phase = "encoded" /\ real.api = "ASN1Real"
    /\ real' = [real EXCEPT !.phase = "decoded",
                            !.out = ASN1Real_decode_value(real.octets)]
    /\ UNCHANGED <<data, dec, rnt, enc, tl>>

NextReal == RealEncode \/ RealDecode \/ ASN1RealEncodeValue \/ ASN1RealDecodeValue

SpecReal == InitReal /\ [][NextReal]_vars

IsFiniteDouble(value) == ExpField(value) # 2047

IsZero(value) == ExpField(value) = 0 /\ FractionField(value) = {}

\* C4: when Real.encode of a finite double gives octets of the binary form
\* (first octet with b8 set), Real.decode of these octets returns a float
\* whose eight octets are those of the double encoded.
C4_BinaryRoundTripExact ==
    (/\ real.api = "Real" /\ real.phase = "decoded"
     /\ IsFiniteDouble(real.value) /\ real.octets[1] >= 128) =>
        real.out = RealFloat(real.value)

\* a negative subnormal double has gone through Real.encode and Real.decode
C4_Witness ==
    /\ real.api = "Real" /\ real.phase = "decoded"
    /\ SignBit(real.value) = 1 /\ ExpField(real.value) = 0
    /\ Cardinality(FractionField(real.value)) = 3
    /\ real.octets[1] >= 128
    /\ real.out = RealFloat(real.value)

\* the one-octet special form expected for the double value, 0 for none
SpecialFormOf(value) ==
    IF ExpField(value) = 2047
    THEN (IF FractionField(value) # {} THEN 66
          ELSE IF SignBit(value) = 1 THEN 65 ELSE 64)
    ELSE IF IsZero(value) /\ SignBit(value) = 1 THEN 67
    ELSE 0

\* C5: -0.0, +infinity, -infinity and NaN are encoded as the one octet 43,
\* 40, 41, 42, and decoding that octet, with Real.decode and with
\* ASN1Real.decode_value, gives the special value of the same kind; +0.0 is
\* encoded in the binary form and decoded to the float +0.0.
C5_SpecialValuesRoundTrip ==
    /\ (real.phase # "input" /\ SpecialFormOf(real.value) # 0) =>
           real.octets = <<SpecialFormOf(real.value)>>
    /\ (real.phase = "decoded" /\ SpecialFormOf(real.value) # 0) =>
           real.out = RealSpecial(SpecialFormOf(real.value))
    /\ (real.phase # "input" /\ real.value = PackDouble(0, 0, {})) =>
           Len(real.octets) > 1 /\ real.octets[1] >= 128
    /\ (real.phase = "decoded" /\ real.value = PackDouble(0, 0, {})) =>
           real.out = RealFloat(PackDouble(0, 0, {}))

-----------------------------------------------------------------------------
(* The binary-form runs: a float, an int or a Decimal encoded with base 2, 8
   or 16 through Real.encode_float or ASN1Real.encode_value, and a Decimal
   decomposed by Real.decompose_decimal_to_base2_sne, the tuple then handed
   to Real._encode_sne_base2 *)

MaxInt == 17          \* the ints encoded are -MaxInt..MaxInt

FormBases == {2, 8, 16}

\* the doubles encoded in the binary-form runs
FormDoubles ==
    {PackDouble(sign, exp, fraction) :
        sign \in {0, 1}, exp \in ExpFields,
        fraction \in {{}, {0}, {51}, {1, 26}, {0, 47, 51}}}

\* the integral parts of the Decimals encoded: zero, small ones, and those
\* around the 8 and 64 bits of max_bytes = 1 and max_bytes = 8
DecimalIntegralParts ==
    {{}, {0}, {1}, {0, 2}, {7}, {8}, {3, 7}, {62}, {63}, {0, 63}, {64},
     {1, 64}, {5, 66}}

\* the fractional parts of the Decimals encoded, in hundredths
DecimalFractions == {0, 1, 10, 25, 50, 75, 99}

FormDecimals ==
    {[ds |-> ds, ip |-> ip, fnum |-> fnum] :
        ds \in {0, 1}, ip \in DecimalIntegralParts, fnum \in DecimalFractions}

FormInput(api, kind, base) ==
    [phase |-> "input", api |-> api, kind |-> kind, base |-> base,
     value |-> PackDouble(0, 0, {}), ivalue |-> 0,
     dvalue |-> [ds |-> 0, ip |-> {}, fnum |-> 0], max_bytes |-> 8,
     sne |-> Sne(0, {}, 0), res |-> Encoded(<<>>)]

FormInputs ==
    {[FormInput(api, "float", base) EXCEPT !.value = v] :
        api \in {"Real.encode_float", "ASN1Real.encode_value"},
        base \in FormBases, v \in FormDoubles}
    \cup {[FormInput(api, "int", base) EXCEPT !.ivalue = v] :
        api \in {"Real.encode_float", "ASN1Real.encode_value"},
        base \in FormBases, v \in (-MaxInt)..MaxInt}
    \cup {[FormInput("ASN1Real.encode_value", "decimal", base)
              EXCEPT !.dvalue = v] :
        base \in FormBases, v \in FormDecimals}
    \cup {[FormInput("Real.decompose_decimal_to_base2_sne", "decimal", base)
              EXCEPT !.dvalue = v, !.max_bytes = m] :
        base \in FormBases, v \in FormDecimals, m \in {1, 8}}

InitForm ==
    /\ real \in FormInputs
    /\ data = Idle /\ dec = Idle /\ rnt = Idle /\ enc = Idle /\ tl = Idle

\* Real.encode_float(value, base), value a float or an int
RealEncodeFloat ==
    /\ real.phase = "input" /\ real.api = "Real.encode_float"
    /\ real' = [real EXCEPT
                   !.phase = "done",
                   !.res = IF real.kind = "float"
                           THEN Encoded(Real_encode_float(real.value, real.base))
                           ELSE Real_encode_float_int(real.ivalue, real.base)]
    /\ UNCHANGED <<data, dec, rnt, enc, tl>>

\* ASN1Real(base=base).encode_value(value), value a float, an int or a Decimal
ASN1RealEncodeValueOf ==
    /\ real.phase = "input" /\ real.api = "ASN1Real.encode_value"
    /\ real' = [real EXCEPT
                   !.phase = "done",
                   !.res = IF real.kind = "float"
                           THEN Encoded(ASN1Real_encode_value(real.value,
                                                              real.base))
                           ELSE IF real.kind = "int"
                           THEN ASN1Real_encode_value_int(real.ivalue)
                           ELSE ASN1Real_encode_value_decimal(real.dvalue,
                                                              real.base)]
    /\ UNCHANGED <<data, dec, rnt, enc, tl>>

\* Real.decompose_decimal_to_base2_sne(value, max_bytes)
RealDecomposeDecimal ==
    /\ real.phase = "input"
    /\ real.api = "Real.decompose_decimal_to_base2_sne"
    /\ real' = [real EXCEPT
                   !.phase = "decomposed",
                   !.sne = Real_decompose_decimal_to_base2_sne(real.dvalue,
                                                               real.max_bytes)]
    /\ UNCHANGED <<data, dec, rnt, enc, tl>>

\* Real._encode_sne_base2(s, n, e, base) of the tuple a decomposition returned
RealEncodeSne ==
    /\ real.phase = "decomposed" /\ ~real.sne.hang
    /\ real' = [real EXCEPT
                   !.phase = "done",
                   !.res = Encoded(Real_encode_sne_base2(real.sne.s, real.sne.n,
                                                         real.sne.e, real.base))]
    /\ UNCHANGED <<data, dec, rnt, enc, tl>>

NextForm ==
    RealEncodeFloat \/ ASN1RealEncodeValueOf \/ RealDecomposeDecimal
        \/ RealEncodeSne

SpecForm == InitForm /\ [][NextForm]_vars

\* the mantissa N of binary-form octets: what follows the first octet and the
\* exponent octets, whose number b2,b1 of the first octet or the second octet
\* gives (X.690 8.5.7.4, 8.5.7.5)
MantissaOf(octets) ==
    LET b2b1 == octets[1] % 4
        first == IF b2b1 < 3 THEN 2 ELSE 3
        elen == IF b2b1 < 3 THEN b2b1 + 1 ELSE octets[2]
    IN  big_from_bytes(SubSeq(octets, first + elen, Len(octets)))

\* C17: the octets of the binary form (first octet with b8 set) that an
\* encoding of a float, an int or a Decimal with base 2, 8 or 16 returns
\* carry a mantissa N that is zero or has its lowest bit set, and so does the
\* tuple a Decimal is decomposed to.
C17_MantissaOddOrZero ==
    /\ (real.phase = "done" /\ real.res.st = "ok"
            /\ Len(real.res.octets) > 0 /\ real.res.octets[1] >= 128) =>
           \/ MantissaOf(real.res.octets) = {}
           \/ 0 \in MantissaOf(real.res.octets)
    /\ (real.phase = "decomposed" /\ ~real.sne.hang) =>
           real.sne.n = {} \/ 0 \in real.sne.n

\* C30: every decomposition of an int or of a finite Decimal into (S, N, E)
\* returns, and so does every encoding call that decomposes one: none is
\* left in the loop that strips the trailing zero bits of N, the int 0 and
\* the Decimals of mantissa 0 included.
C30_DecomposeTerminates ==
    /\ (real.phase = "done" /\ real.kind \in {"int", "decimal"}) =>
           real.res.st # "hang"
    /\ real.phase = "decomposed" => ~real.sne.hang

-----------------------------------------------------------------------------
(* The decoding runs on a given (S, N, E): the octets of a binary REAL in
   base 2 with F = 0 and a two-octet exponent, as another encoder may have
   written them (N need not be odd, nor fit 53 bits), handed to Real.decode
   or to ASN1Real.decode_value *)

\* the widths in bits of the mantissas N given
SneWidths == {1, 2, 3, 53, 54, 55, 64}

\* the mantissas of the width w: the top bit alone, with the lowest bit, with
\* the bit below the top, every second bit, and all bits
SneMantissasOf(w) ==
    {{w - 1}, {w - 1, 0}, {w - 1} \cup {i \in 0..(w - 2) : i >= w - 2},
     {i \in 0..(w - 1) : (w - 1 - i) % 2 = 0}, 0..(w - 1)}

SneMantissas == UNION {SneMantissasOf(w) : w \in SneWidths}

\* the exponents E given: below the subnormals, among them, in the normal
\* range, and from 2^1024 on
SneExponents ==
    {-1300, -1200, -1140, -1139, -1130, -1128, -1127, -1076, -1075, -1074,
     -1073, -1022, -60, -1, 0, 1, 10, 900, 960, 969, 970, 971, 1021, 1022,
     1023, 1024, 1025, 1100, 2000}

\* X.690 8.5.7: the octets of the binary REAL S * N * 2^E, first octet
\* 1 S 00 00 01, then E in two octets of two's complement, then N
SneOctets(s, n, e) ==
    <<128 + (IF s < 0 THEN 64 ELSE 0) + 1>>
        \o to_bytes((e + 65536) % 65536, 2)
        \o unsigned_int_to_bytes(n)

InitSne ==
    /\ real \in {[phase |-> "input", s |-> s, n |-> n, e |-> e,
                  octets |-> SneOctets(s, n, e), api |-> "none",
                  out |-> RealRaise("none")]
                 : s \in {1, -1}, n \in SneMantissas, e \in SneExponents}
    /\ data = Idle /\ dec = Idle /\ rnt = Idle /\ enc = Idle /\ tl = Idle

\* Real.decode(octets)
RealDecodeSne ==
    /\ real.phase = "input"
    /\ real' = [real EXCEPT !.phase = "decoded", !.api = "Real",
                            !.out = Real_decode(real.octets)]
    /\ UNCHANGED <<data, dec, rnt, enc, tl>>

\* ASN1Real.decode_value(octets, der)
ASN1RealDecodeSne ==
    /\ real.phase = "input"
    /\ real' = [real EXCEPT !.phase = "decoded", !.api = "ASN1Real",
                            !.out = ASN1Real_decode_value(real.octets)]
    /\ UNCHANGED <<data, dec, rnt, enc, tl>>

NextSne == RealDecodeSne \/ ASN1RealDecodeSne

SpecSne == InitSne /\ [][NextSne]_vars

\* the exponent of the leading bit of N * 2^E: 2^SneTop <= N * 2^E < 2^(SneTop + 1)
SneTop == real.e + big_bit_length(real.n) - 1

\* the sign bit of the double for the sign S
SneSign == IF real.s < 0 THEN 1 ELSE 0

\* C25: a binary REAL of magnitude 2^1024 or more, whose biased exponent
\* would exceed that of the largest finite double, decodes to the float
\* infinity of the sign encoded.
C25_OverflowGivesSignedInfinity ==
    (real.phase = "decoded" /\ SneTop >= 1024) =>
        real.out = RealFloat(PackDouble(SneSign, 2047, {}))

\* C26: a binary REAL of magnitude below the smallest subnormal, 2^-1074,
\* decodes to the float zero of the sign encoded, and the decoding raises
\* nothing.
C26_UnderflowGivesSignedZero ==
    (real.phase = "decoded" /\ SneTop < -1074) =>
        real.out = RealFloat(PackDouble(SneSign, 0, {}))

\* C27: a binary REAL in the normal range whose N has more than 53 bits
\* decodes to the double whose significand is the top 53 bits of N, the
\* lower bits dropped, and whose exponent is E plus the number of bits
\* dropped.
C27_WideMantissaTruncated ==
    (/\ real.phase = "decoded" /\ big_bit_length(real.n) > 53
     /\ SneTop >= -1022 /\ SneTop <= 1023) =>
        real.out =
            RealFloat(PackDouble(SneSign, SneTop + 1023,
                                 LowBits(Shr(real.n, big_bit_length(real.n) - 53),
                                         52)))

-----------------------------------------------------------------------------
(* asn1util/data_types: ASN1DataType.__init__ called with value = None, a
   Length and the value octets (the decoding case), through
   ASN1GeneralDataType, ASN1Sequence / ASN1Set and asn1_decode.  The result is
   the exception raised ("none" for none) and the length octets of the
   object constructed. *)

DataTypeRaise(kind) == [err |-> kind, length |-> <<>>]

\* the exception err raised first, or else the ValueError raised after it
OrValueError(err) == IF err # "none" THEN err ELSE "ValueError"

RECURSIVE asn1_decode(_, _, _)
RECURSIVE asn1_decode_item(_, _, _)
RECURSIVE asn1_decode_rest(_, _, _, _)

\* ASN1DataType.__init__(value=None, length, value_octets, der) for an object
\* whose tag is tag and whose decode_value raises decoded_err ("none" for none)
ASN1DataType_init(tag, length, value_octets, der, decoded_err) ==
    LET indefinite == ~length.definite   \* `length and not length.is_definite`
    IN  IF indefinite /\ is_primitive(tag) THEN DataTypeRaise("InvalidEncoding")
        ELSE IF indefinite /\ der THEN DataTypeRaise("DERIncompatible")
        ELSE IF decoded_err # "none" THEN DataTypeRaise(decoded_err)
        ELSE IF indefinite
        THEN [err |-> "none", length |-> Length_eval(Len(value_octets))]
        ELSE IF Len(value_octets) # length.value THEN DataTypeRaise("ValueError")
        ELSE [err |-> "none", length |-> length.octets]

\* ASN1GeneralDataType(tag=tag, length=length, value_octets=value_octets,
\* der=der): decode_value returns the octets of a primitive element and
\* calls asn1_decode(octets, der) for a constructed one
ASN1GeneralDataType_init(tag, length, value_octets, der) ==
    ASN1DataType_init(tag, length, value_octets, der,
                      IF is_primitive(tag) THEN "none"
                      ELSE asn1_decode(value_octets, 0, der))

\* ASN1Sequence(length=length, value_octets=value_octets, der=der), and
\* ASN1Set likewise: __init__(self, length, value, value_octets, der) hands
\* its arguments on in that order to ASN1DataType.__init__(self, value,
\* length, value_octets, der), which so receives the Length as value and
\* None as length: it decodes value_octets and raises ValueError because the
\* Length differs from the list decoded.
ASN1Sequence_init(length, value_octets, der) ==
    DataTypeRaise(OrValueError(asn1_decode(value_octets, 0, der)))

\* asn1_decode(data, der) reading buf from offset pos: the exception raised,
\* "none" when the list is returned.  UNIVERSAL_DATA_TYPE_MAP holds the tags
\* 30 and 31; every other element becomes an ASN1GeneralDataType, to which
\* der is not handed on.
asn1_decode(buf, pos, der) == asn1_decode_item(buf, read_next_tlv(buf, pos), der)

\* the body of the loop of asn1_decode for the item r that read_next_tlv
\* returned
asn1_decode_item(buf, r, der) ==
    IF r.st = "err" THEN r.err
    ELSE IF r.st = "none" THEN "none"
    ELSE asn1_decode_rest(
             buf, r.pos, der,
             IF r.t \in {<<48>>, <<49>>}
             THEN ASN1Sequence_init(Length_init(r.l, FALSE), r.v, der)
             ELSE ASN1GeneralDataType_init(Tag_init(r.t, FALSE),
                                           Length_init(r.l, FALSE), r.v, FALSE))

\* the loop of asn1_decode after the object item was constructed
asn1_decode_rest(buf, pos, der, item) ==
    IF item.err # "none" THEN item.err ELSE asn1_decode(buf, pos, der)

-----------------------------------------------------------------------------
(* Tag and Length on their own: Tag.build / Length.build on a value, then
   Tag.decode / Length.decode of the octets built, and Tag.decode of given
   octets *)

MaxTagNumber == 130       \* largest tag number built
MaxLengthValue == 300     \* largest length value built

\* Tag.Class and Tag.Type
TagClasses == {0, 64, 128, 192}
TagTypes == {0, 32}

\* the octets the given tag octets are made of
TagOctetAlphabet == {0, 1, 4, 31, 64, 128, 129}

TagOctetInputs ==
    {<<a>> : a \in TagOctetAlphabet}
        \cup {<<31, b>> : b \in TagOctetAlphabet}
        \cup {<<31, b, c>> : b \in TagOctetAlphabet, c \in TagOctetAlphabet}

\* what a decode returned or raised
NoOut ==
    [st |-> "none", err |-> "none", octets |-> <<>>, clazz |-> 0, pc |-> 0,
     number |-> 0, definite |-> FALSE, value |-> 0, pos |-> 0]

TLInput(what, clazz, pc, number, definite, value) ==
    [phase |-> "input", what |-> what, clazz |-> clazz, pc |-> pc,
     number |-> number, definite |-> definite, value |-> value,
     octets |-> <<>>, err |-> "none", out |-> NoOut,
     der |-> FALSE, tag |-> <<>>, value_octets |-> <<>>]

\* the length octets given to Length.decode and to Length(...)
LengthOctetInputs ==
    {<<a>> : a \in {0, 5, 127, 128, 255}}
        \cup {<<129, b>> : b \in {0, 5, 127, 128, 255}}
        \cup {<<130, b, c>> : b \in {0, 1}, c \in {0, 5, 128}}
        \cup {<<129>>, <<131, 0, 0, 1>>}

\* the arguments of ASN1GeneralDataType(tag, length=Length(octets),
\* value_octets, der): an OCTET STRING or a SEQUENCE tag
DataTypeInputs ==
    {[TLInput("datatype", 0, 0, 0, FALSE, 0) EXCEPT
          !.phase = "built", !.tag = t, !.octets = l, !.value_octets = v,
          !.der = d]
     : t \in {<<4>>, <<48>>}, l \in {<<128>>, <<0>>, <<2>>},
       v \in {<<>>, <<0, 0>>, <<4, 0>>, <<48, 0>>, <<4, 128, 0, 0>>},
       d \in BOOLEAN}

TLInputs ==
    {TLInput("tag", c, t, n, FALSE, 0) :
        c \in TagClasses, t \in TagTypes, n \in 0..MaxTagNumber}
    \cup {TLInput("length", 0, 0, 0, TRUE, v) : v \in 0..MaxLengthValue}
    \cup {TLInput("length", 0, 0, 0, FALSE, 0)}
    \cup {[TLInput("octets", 0, 0, 0, FALSE, 0) EXCEPT !.phase = "built",
                                                        !.octets = o]
          : o \in TagOctetInputs}
    \cup {[TLInput("loctets", 0, 0, 0, FALSE, 0) EXCEPT !.phase = "built",
                                                         !.octets = o,
                                                         !.der = d]
          : o \in LengthOctetInputs, d \in BOOLEAN}
    \cup DataTypeInputs

InitTL ==
    /\ tl \in TLInputs
    /\ data = Idle /\ dec = Idle /\ rnt = Idle /\ enc = Idle /\ real = Idle

\* Tag.build(tl.clazz, tl.pc, tl.number)
TagBuild ==
    /\ tl.phase = "input" /\ tl.what = "tag"
    /\ LET t == Tag_build(tl.clazz, tl.pc, tl.number)
       IN  tl' = [tl EXCEPT !.phase = "built", !.octets = t.octets,
                            !.err = t.err]
    /\ UNCHANGED <<data, dec, rnt, enc, real>>

\* Length.build(tl.value), or Length.build(None)
LengthBuild ==
    /\ tl.phase = "input" /\ tl.what = "length"
    /\ LET l == Length_build([definite |-> tl.definite, value |-> tl.value])
       IN  tl' = [tl EXCEPT !.phase = "built", !.octets = l.octets,
                            !.err = l.err]
    /\ UNCHANGED <<data, dec, rnt, enc, real>>

\* Tag.decode(tl.octets)
TagDecode ==
    /\ tl.phase = "built" /\ tl.what \in {"tag", "octets"} /\ tl.err = "none"
    /\ LET r == Tag_decode(tl.octets, 0)
       IN  tl' = [tl EXCEPT !.phase = "decoded",
                     !.out = [NoOut EXCEPT !.st = r.st, !.err = r.tag.err,
                                 !.octets = r.tag.octets,
                                 !.clazz = r.tag.clazz, !.pc = r.tag.pc,
                                 !.number = r.tag.number, !.pos = r.pos]]
    /\ UNCHANGED <<data, dec, rnt, enc, real>>

\* Length.decode(tl.octets, tl.der)
LengthDecode ==
    /\ tl.phase = "built" /\ tl.what \in {"length", "loctets"}
    /\ tl.err = "none"
    /\ LET r == Length_decode(tl.octets, 0, tl.der)
       IN  tl' = [tl EXCEPT !.phase = "decoded",
                     !.out = [NoOut EXCEPT !.st = r.st, !.err = r.length.err,
                                 !.octets = r.length.octets,
                                 !.definite = r.length.definite,
                                 !.value = r.length.value, !.pos = r.pos]]
    /\ UNCHANGED <<data, dec, rnt, enc, real>>

\* Length(tl.octets, tl.der)
LengthInit ==
    /\ tl.phase = "built" /\ tl.what = "loctets"
    /\ LET l == Length_init(tl.octets, tl.der)
       IN  tl' = [tl EXCEPT !.phase = "constructed",
                     !.out = [NoOut EXCEPT
                                 !.st = IF l.err = "none" THEN "ok" ELSE "err",
                                 !.err = l.err, !.octets = l.octets,
                                 !.definite = l.definite, !.value = l.value]]
    /\ UNCHANGED <<data, dec, rnt, enc, real>>

\* what the construction r of an object did: the exception raised, or the
\* length octets of the object
DataTypeOut(r) ==
    [NoOut EXCEPT !.st = IF r.err = "none" THEN "ok" ELSE "err",
                  !.err = r.err, !.octets = r.length]

\* ASN1GeneralDataType(tag=Tag(tl.tag), length=Length(tl.octets),
\*                     value_octets=tl.value_octets, der=tl.der)
DataTypeInit ==
    /\ tl.phase = "built" /\ tl.what = "datatype"
    /\ tl' = [tl EXCEPT
                 !.phase = "constructed",
                 !.out = DataTypeOut(
                             ASN1GeneralDataType_init(
                                 Tag_init(tl.tag, FALSE),
                                 Length_init(tl.octets, FALSE),
                                 tl.value_octets, tl.der))]
    /\ UNCHANGED <<data, dec, rnt, enc, real>>

NextTL ==
    \/ TagBuild \/ LengthBuild \/ TagDecode \/ LengthDecode
    \/ LengthInit \/ DataTypeInit

SpecTL == InitTL /\ [][NextTL]_vars

\* C3: Tag.build raises nothing and Tag.decode of the octets built returns a
\* Tag of the same class, type and number; Length.build raises nothing and
\* Length.decode of the octets built returns the same value, or the
\* indefinite length for the indefinite length.
C3_BuildDecodeRoundTrip ==
    /\ (tl.what = "tag" /\ tl.phase # "input") => tl.err = "none"
    /\ (tl.what = "tag" /\ tl.phase = "decoded") =>
           /\ tl.out.st = "ok"
           /\ tl.out.clazz = tl.clazz /\ tl.out.pc = tl.pc
           /\ tl.out.number = tl.number
    /\ (tl.what = "length" /\ tl.phase # "input") => tl.err = "none"
    /\ (tl.what = "length" /\ tl.phase = "decoded") =>
           /\ tl.out.st = "ok"
           /\ tl.out.definite = tl.definite
           /\ tl.definite => tl.out.value = tl.value

Is1F8100 == tl.what = "octets" /\ tl.octets = <<31, 129, 0>>

\* C9 as stated: Tag.decode of the octets 1F 81 00 raises InvalidEncoding.
C9_Original ==
    (Is1F8100 /\ tl.phase = "decoded") =>
        tl.out.st = "err" /\ IsInvalidEncoding(tl.out.err)

\* C9 amended: Tag.decode of the octets 1F 81 00 raises nothing and returns a
\* universal primitive long-form Tag made of all three octets; Tag.decode of
\* 1F 80 01, whose first subsequent octet has b7-b1 all zero, and of 1F 81,
\* whose last octet has b8 set, raises InvalidEncoding.
C9_Amended ==
    /\ (Is1F8100 /\ tl.phase = "decoded") =>
           /\ tl.out.st = "ok" /\ tl.out.err = "none"
           /\ tl.out.octets = <<31, 129, 0>> /\ tl.out.pos = 3
           /\ tl.out.clazz = 0 /\ tl.out.pc = 0
    /\ (/\ tl.what = "octets" /\ tl.phase = "decoded"
        /\ tl.octets \in {<<31, 128, 1>>, <<31, 129>>}) =>
           tl.out.st = "err" /\ tl.out.err = "InvalidEncoding"

C9_Witness == Is1F8100 /\ tl.phase = "decoded" /\ tl.out.st = "ok"

RECURSIVE Base128Value(_)
\* number = (number << 7) | (octet & 0x7f) accumulated from 0 over the octets
Base128Value(octets) ==
    IF octets = <<>> THEN 0
    ELSE Base128Value(Front(octets)) * 128 + (Last(octets) % 128)

\* C23: the number of every long-form Tag returned by Tag.decode is the
\* big-endian base-128 value of the low 7 bits of the octets after the
\* leading one.
C23_LongFormNumber ==
    (/\ tl.what \in {"tag", "octets"} /\ tl.phase = "decoded"
     /\ tl.out.st = "ok" /\ Len(tl.out.octets) > 1) =>
        tl.out.number = Base128Value(Tail(tl.out.octets))

\* C12: with der = TRUE the octet 80 is rejected: Length.decode(80, der=True)
\* and Length(80, der=True) raise InvalidEncoding or its subclass
\* DERIncompatible, and so does the construction of a data type from the
\* indefinite Length with der = TRUE.
C12_DERRejectsIndefinite ==
    /\ (/\ tl.what = "loctets" /\ tl.der /\ tl.octets = <<128>>
        /\ tl.phase \in {"decoded", "constructed"}) =>
           tl.out.st = "err" /\ IsInvalidEncoding(tl.out.err)
    /\ (/\ tl.what = "datatype" /\ tl.der /\ tl.octets = <<128>>
        /\ tl.phase = "constructed") =>
           tl.out.st = "err" /\ IsInvalidEncoding(tl.out.err)

\* X.690 8.1.3.5: the fewest octets that hold the value v >= 1
MinOctets(v) == CHOOSE k \in 1..4 : v < 256 ^ k /\ (k = 1 \/ v >= 256 ^ (k - 1))

\* C15: Length.build(v) raises nothing and returns the single octet v for
\* 0 <= v < 128, and for a larger v the octet 80 + k followed by the k
\* big-endian octets of v, k the fewest octets that hold v.
C15_LengthBuildForm ==
    (tl.what = "length" /\ tl.definite /\ tl.phase # "input") =>
        /\ tl.err = "none"
        /\ tl.value < 128 => tl.octets = <<tl.value>>
        /\ tl.value >= 128 =>
               tl.octets = <<128 + MinOctets(tl.value)>>
                               \o to_bytes(tl.value, MinOctets(tl.value))

\* C16: the octets Length.decode accepted are the only ones it accepts for
\* the value returned, and the octets Tag.decode accepted are the only ones
\* it accepts for the class, type and number returned.
C16_DecodingInjective ==
    /\ (tl.what = "loctets" /\ tl.phase = "decoded" /\ tl.out.st = "ok") =>
           \A o \in LengthOctetInputs :
               LET r == Length_decode(o, 0, tl.der)
               IN  (/\ r.st = "ok"
                    /\ r.length.definite = tl.out.definite
                    /\ r.length.value = tl.out.value) =>
                       r.length.octets = tl.out.octets
    /\ (tl.what = "octets" /\ tl.phase = "decoded" /\ tl.out.st = "ok") =>
           \A o \in TagOctetInputs :
               LET r == Tag_decode(o, 0)
               IN  (/\ r.st = "ok"
                    /\ r.tag.clazz = tl.out.clazz /\ r.tag.pc = tl.out.pc
                    /\ r.tag.number = tl.out.number) =>
                       r.tag.octets = tl.out.octets

=============================================================================
